---- MODULE Spec2Model ----
(***************************************************************************)
(* A model of GeoRAW: the sidecar merge engine (internal/xmp), the series  *)
(* tagging run (internal/series) and the geotagging run (internal/app).    *)
(*                                                                         *)
(* Strings (paths, keywords, raw XML character data) are sequences of      *)
(* one-character strings, so that case folding, trimming, escaping,        *)
(* extension handling and byte-wise sorting are computed, not assumed.     *)
(* Times and durations are integers in milliseconds.                       *)
(***************************************************************************)
EXTENDS Integers, Sequences, FiniteSets, TLC

(***************************************************************************)
(* Characters and strings                                                  *)
(***************************************************************************)
Range(s) == {s[i] : i \in 1..Len(s)}

Lowers == <<"a","b","c","d","e","f","g","h","i","j","k","l","m",
            "n","o","p","q","r","s","t","u","v","w","x","y","z">>
Uppers == <<"A","B","C","D","E","F","G","H","I","J","K","L","M",
            "N","O","P","Q","R","S","T","U","V","W","X","Y","Z">>
Digits == <<"0","1","2","3","4","5","6","7","8","9">>

Others == <<" ", "\"", "#", "&", "'", ",", ".", "/", ":", ";", "<", ">", "_">>
OtherCodes == <<32, 34, 35, 38, 39, 44, 46, 47, 58, 59, 60, 62, 95>>

CharSet == Range(Lowers) \cup Range(Uppers) \cup Range(Digits) \cup Range(Others)

IndexIn(c, tbl) == CHOOSE i \in 1..Len(tbl) : tbl[i] = c

\* The byte value of each character (ASCII), the order sort.Strings compares by.
CodeTable ==
    [c \in CharSet |->
        IF c \in Range(Lowers) THEN 96 + IndexIn(c, Lowers)
        ELSE IF c \in Range(Uppers) THEN 64 + IndexIn(c, Uppers)
        ELSE IF c \in Range(Digits) THEN 47 + IndexIn(c, Digits)
        ELSE OtherCodes[IndexIn(c, Others)]]
CharCode(c) == CodeTable[c]

DigitTable == [c \in CharSet |-> IF c \in Range(Digits) THEN IndexIn(c, Digits) - 1 ELSE -1]
IsDigit(c) == DigitTable[c] >= 0
DigitVal(c) == DigitTable[c]

\* strings.ToLower on one character and on a string.
LowerTable == [c \in CharSet |-> IF c \in Range(Uppers) THEN Lowers[IndexIn(c, Uppers)] ELSE c]
LowerChar(c) == LowerTable[c]
ToLower(s) == [i \in 1..Len(s) |-> LowerChar(s[i])]

\* strings.EqualFold, on the ASCII range.
EqualFold(s, t) == ToLower(s) = ToLower(t)

HasSuffix(s, suf) ==
    /\ Len(suf) <= Len(s)
    /\ SubSeq(s, Len(s) - Len(suf) + 1, Len(s)) = suf

HasPrefixAt(s, i, pre) ==
    /\ i + Len(pre) - 1 <= Len(s)
    /\ SubSeq(s, i, i + Len(pre) - 1) = pre

TrimSuffix(s, suf) == IF HasSuffix(s, suf) THEN SubSeq(s, 1, Len(s) - Len(suf)) ELSE s

\* strings.TrimSpace: drops leading and trailing blanks.
RECURSIVE TrimLeft(_)
TrimLeft(s) == IF s # <<>> /\ s[1] = " " THEN TrimLeft(Tail(s)) ELSE s
RECURSIVE TrimRight(_)
TrimRight(s) == IF s # <<>> /\ s[Len(s)] = " " THEN TrimRight(SubSeq(s, 1, Len(s) - 1)) ELSE s
TrimSpace(s) == TrimRight(TrimLeft(s))

\* Byte-wise string order (Go's < on strings).
RECURSIVE StrLess(_, _)
StrLess(s, t) ==
    IF t = <<>> THEN FALSE
    ELSE IF s = <<>> THEN TRUE
    ELSE IF CharCode(s[1]) # CharCode(t[1]) THEN CharCode(s[1]) < CharCode(t[1])
    ELSE StrLess(Tail(s), Tail(t))

\* sort.Strings: insertion into a sorted sequence (stable for equal keys).
RECURSIVE InsertSorted(_, _)
InsertSorted(x, sorted) ==
    IF sorted = <<>> THEN <<x>>
    ELSE IF StrLess(x, sorted[1]) THEN <<x>> \o sorted
    ELSE <<sorted[1]>> \o InsertSorted(x, Tail(sorted))
RECURSIVE SortStrings(_)
SortStrings(ss) == IF ss = <<>> THEN <<>> ELSE InsertSorted(ss[Len(ss)], SortStrings(SubSeq(ss, 1, Len(ss) - 1)))

(***************************************************************************)
(* Paths (path/filepath) and the sidecar path                              *)
(***************************************************************************)
\* filepath.Ext: the suffix beginning at the final dot of the final path
\* element; empty when there is no dot.
RECURSIVE ExtFrom(_, _)
ExtFrom(path, i) ==
    IF i = 0 THEN <<>>
    ELSE IF path[i] = "/" THEN <<>>
    ELSE IF path[i] = "." THEN SubSeq(path, i, Len(path))
    ELSE ExtFrom(path, i - 1)
Ext(path) == ExtFrom(path, Len(path))

\* filepath.Base on a slash-separated path without trailing slashes.
RECURSIVE BaseFrom(_, _)
BaseFrom(path, i) ==
    IF i = 0 THEN path
    ELSE IF path[i] = "/" THEN SubSeq(path, i + 1, Len(path))
    ELSE BaseFrom(path, i - 1)
Base(path) == IF path = <<>> THEN <<".">> ELSE BaseFrom(path, Len(path))

xmpExt == <<".", "x", "m", "p">>

\* A plausible slip: the extension is dropped and the sidecar one not added.
SidecarPathNoSuffix(rawPath) == TrimSuffix(rawPath, Ext(rawPath))

\* A plausible slip: a sidecar extension on the input is replaced like any
\* other, without looking at the extension before it.
SidecarPathOneStep(rawPath) ==
    IF Ext(rawPath) = <<>> THEN rawPath \o xmpExt
    ELSE TrimSuffix(rawPath, Ext(rawPath)) \o xmpExt

\* xmp.SidecarPath
SidecarPath(rawPath) ==
    LET path == IF EqualFold(Ext(rawPath), xmpExt)
                THEN TrimSuffix(rawPath, Ext(rawPath))
                ELSE rawPath
        ext  == Ext(path)
    IN  IF ext = <<>> THEN path \o xmpExt
        ELSE TrimSuffix(path, ext) \o xmpExt

(***************************************************************************)
(* Number formatting (strconv / fmt)                                       *)
(***************************************************************************)
RECURSIVE IntToStr(_)
IntToStr(n) == IF n < 10 THEN <<Digits[n + 1]>>
               ELSE IntToStr(n \div 10) \o <<Digits[(n % 10) + 1]>>

\* fmt's %02d for a value below 100.
Pad2(n) == <<Digits[(n \div 10) + 1], Digits[(n % 10) + 1]>>

RECURSIVE TrimRightChar(_, _)
TrimRightChar(s, c) ==
    IF s # <<>> /\ s[Len(s)] = c THEN TrimRightChar(SubSeq(s, 1, Len(s) - 1), c) ELSE s

Abs(n) == IF n < 0 THEN -n ELSE n

(***************************************************************************)
(* Sidecar file contents                                                   *)
(*                                                                         *)
(* A file is absent, blank (empty or whitespace only), junk (text without  *)
(* any XMP structure), or an XMP document:                                 *)
(*   fmt      "xmp": prefixed element and attribute names as XMP tools and *)
(*            BuildSidecar/buildKeywordsSidecar write them                 *)
(*            (<rdf:Description ... exif:GPSLatitude="...">);              *)
(*            "go": the output of marshalXMP, where encoding/xml names the *)
(*            elements from the struct tags (<xmpmeta>, <RDF>,             *)
(*            <Description>) and writes every namespaced attribute under a *)
(*            generated prefix (_xmlns:exif=, _:GPSLatitude=)              *)
(*   gen      number of marshalXMP passes the bytes went through (each pass*)
(*            re-declares the generated prefixes, so the bytes differ)     *)
(*   pktOther children of xmpmeta other than rdf:RDF                       *)
(*   rdfOther children of rdf:RDF other than rdf:Description               *)
(*   descs    the rdf:Description elements: attributes (each with the      *)
(*            white space before it, "sp" or "nl"), self-closing flag and  *)
(*            raw inner XML as a sequence of nodes                         *)
(* Nodes: a complete exif GPS element, a dc:subject block with the raw     *)
(* text of its rdf:li items, or any other element.                         *)
(***************************************************************************)
Absent == [k |-> "absent"]
Blank  == [k |-> "blank"]
Junk   == [k |-> "junk"]

GpsNames == <<"GPSLatitude", "GPSLatitudeRef", "GPSLongitude", "GPSLongitudeRef",
              "GPSAltitude", "GPSAltitudeRef", "GPSVersionID", "GPSDateStamp",
              "GPSTimeStamp">>
GpsNameSet == Range(GpsNames)

AttrOf(n, v, sep) == [n |-> n, v |-> v, sep |-> sep]
GpsNode(n, v)     == [k |-> "gps", n |-> n, v |-> v, li |-> <<>>]
SubjNode(li)      == [k |-> "subj", n |-> "dc:subject", v |-> <<>>, li |-> li]
ElemNode(n, v)    == [k |-> "elem", n |-> n, v |-> v, li |-> <<>>]

DescOf(attrs, sc, inner) == [attrs |-> attrs, sc |-> sc, inner |-> inner]

DocOf(fmt, gen, pktOther, rdfOther, descs) ==
    [k |-> "doc", fmt |-> fmt, gen |-> gen, pktOther |-> pktOther,
     rdfOther |-> rdfOther, descs |-> descs]

\* The subsequence of s at the positions in keep.
RECURSIVE SelectAt(_, _, _)
SelectAt(s, keep, i) ==
    IF i > Len(s) THEN <<>>
    ELSE (IF i \in keep THEN <<s[i]>> ELSE <<>>) \o SelectAt(s, keep, i + 1)

RECURSIVE Flatten(_)
Flatten(ss) == IF ss = <<>> THEN <<>> ELSE ss[1] \o Flatten(Tail(ss))

\* Every node of the document text, in document order of its region.
AllNodes(c) ==
    IF c.k # "doc" THEN <<>>
    ELSE c.pktOther \o c.rdfOther \o Flatten([i \in 1..Len(c.descs) |-> c.descs[i].inner])
AllAttrs(c) ==
    IF c.k # "doc" THEN <<>>
    ELSE Flatten([i \in 1..Len(c.descs) |-> c.descs[i].attrs])

(***************************************************************************)
(* GPS merge (writer.go)                                                   *)
(***************************************************************************)
exifNamespaceAttr == "xmlns:exif"
dcNamespaceAttr   == "xmlns:dc"

\* Scale of the model's coordinates: a coordinate is an integer number of
\* twentieths of an arc minute; minutes are rounded to tenths (the code
\* rounds float minutes to 1e-10).
UnitsPerMinute == 20
UnitsPerDegree == 60 * UnitsPerMinute

\* formatGPSCoordinate: <<"deg,min" followed by the hemisphere, hemisphere>>
formatGPSCoordinate(value, positiveRef, negativeRef) ==
    LET ref      == IF value < 0 THEN negativeRef ELSE positiveRef
        abs      == Abs(value)
        deg0     == abs \div UnitsPerDegree
        \* minutes in tenths, rounded half away from zero
        tenths0  == ((abs % UnitsPerDegree) + 1) \div 2
        carry    == tenths0 >= 600
        deg      == IF carry THEN deg0 + 1 ELSE deg0
        tenths   == IF carry THEN 0 ELSE tenths0
        degStr   == IntToStr(deg)
        minFull  == IntToStr(tenths \div 10) \o <<".">> \o IntToStr(tenths % 10)
        minTrim  == TrimRightChar(TrimRightChar(minFull, "0"), ".")
        minStr   == IF minTrim = <<>> THEN <<"0">> ELSE minTrim
    IN  <<degStr \o <<",">> \o minStr \o <<ref>>, <<ref>>>>

NoAlt == -100000

\* An altitude in centimetres as %0.2f of its absolute value, and its sign ref.
AltText(alt) == IntToStr(Abs(alt) \div 100) \o <<".">> \o Pad2(Abs(alt) % 100)
AltRef(alt)  == IF alt < 0 THEN <<"1">> ELSE <<"0">>

MsPerSecond == 1000
MsPerDay == 24 * 3600 * MsPerSecond

\* ts.UTC().Format("2006:01:02"): the day of the timestamp (day number).
gpsDate(ts) == IntToStr(ts \div MsPerDay)
\* ts.UTC().Format("15:04:05"): the time of day truncated to the second.
gpsTime(ts) ==
    LET sec == (ts % MsPerDay) \div MsPerSecond
    IN  Pad2(sec \div 3600) \o <<":">> \o Pad2((sec \div 60) % 60) \o <<":">> \o Pad2(sec % 60)

gpsVersion == <<"2", ".", "3", ".", "0", ".", "0">>

\* The GPS attributes in the order BuildSidecar writes them.
BuildAttrs(coord, ts) ==
    LET lat == formatGPSCoordinate(coord.lat, "N", "S")
        lon == formatGPSCoordinate(coord.lon, "E", "W")
    IN  <<AttrOf("GPSLatitude", lat[1], "sp"), AttrOf("GPSLatitudeRef", lat[2], "sp"),
          AttrOf("GPSLongitude", lon[1], "sp"), AttrOf("GPSLongitudeRef", lon[2], "sp")>>
        \o (IF coord.alt # NoAlt
            THEN <<AttrOf("GPSAltitude", AltText(coord.alt), "sp"),
                   AttrOf("GPSAltitudeRef", AltRef(coord.alt), "sp")>>
            ELSE <<>>)
        \o <<AttrOf("GPSVersionID", gpsVersion, "sp"),
             AttrOf("GPSDateStamp", gpsDate(ts), "sp"),
             AttrOf("GPSTimeStamp", gpsTime(ts), "sp")>>

aboutAttr == AttrOf("rdf:about", <<>>, "sp")
exifNamespace == <<"e", "x", "i", "f", "/", "1", ".", "0", "/">>
dcNamespace   == <<"d", "c", "/", "1", ".", "1", "/">>

\* BuildSidecar
BuildSidecar(coord, ts) ==
    DocOf("xmp", 0, <<>>, <<>>,
          <<DescOf(<<aboutAttr, AttrOf(exifNamespaceAttr, exifNamespace, "sp")>>
                   \o BuildAttrs(coord, ts), FALSE, <<>>)>>)

\* The attributes updateDescriptionTag appends, in its order.
\* A plausible slip: the time stamp is left out of the rewritten set.
UpdateAttrsNoTime(coord, ts, hasNs) ==
    LET lat == formatGPSCoordinate(coord.lat, "N", "S")
        lon == formatGPSCoordinate(coord.lon, "E", "W")
    IN  (IF hasNs THEN <<>> ELSE <<AttrOf(exifNamespaceAttr, exifNamespace, "sp")>>)
        \o <<AttrOf("GPSLatitude", lat[1], "sp"), AttrOf("GPSLatitudeRef", lat[2], "sp"),
             AttrOf("GPSLongitude", lon[1], "sp"), AttrOf("GPSLongitudeRef", lon[2], "sp"),
             AttrOf("GPSVersionID", gpsVersion, "sp"),
             AttrOf("GPSDateStamp", gpsDate(ts), "sp")>>

UpdateAttrs(coord, ts, hasNs) ==
    LET lat == formatGPSCoordinate(coord.lat, "N", "S")
        lon == formatGPSCoordinate(coord.lon, "E", "W")
    IN  (IF hasNs THEN <<>> ELSE <<AttrOf(exifNamespaceAttr, exifNamespace, "sp")>>)
        \o <<AttrOf("GPSLatitude", lat[1], "sp"), AttrOf("GPSLatitudeRef", lat[2], "sp"),
             AttrOf("GPSLongitude", lon[1], "sp"), AttrOf("GPSLongitudeRef", lon[2], "sp"),
             AttrOf("GPSVersionID", gpsVersion, "sp"),
             AttrOf("GPSDateStamp", gpsDate(ts), "sp"),
             AttrOf("GPSTimeStamp", gpsTime(ts), "sp")>>
        \o (IF coord.alt # NoAlt
            THEN <<AttrOf("GPSAltitude", AltText(coord.alt), "sp"),
                   AttrOf("GPSAltitudeRef", AltRef(coord.alt), "sp")>>
            ELSE <<>>)

IsGpsAttr(a) == a.n \in GpsNameSet
NotGpsAttr(a) == ~IsGpsAttr(a)

\* gpsAttrRegex.ReplaceAllString(tag, ""): each GPS attribute goes, together
\* with the white space before it.
\* A plausible slip: the regex also takes every other attribute of the tag.
StripGpsAttrsGreedy(attrs) == <<>>
StripGpsAttrs(attrs) == SelectAt(attrs, {i \in 1..Len(attrs) : NotGpsAttr(attrs[i])}, 1)

\* insertTagAttributes: the new attributes go before the closing > or />,
\* one per line when the tag already spans lines, else separated by a blank.
insertTagAttributes(clean, new) ==
    LET multiline == \E i \in 1..Len(clean) : clean[i].sep = "nl"
    IN  clean \o [i \in 1..Len(new) |->
                    [new[i] EXCEPT !.sep = IF multiline THEN "nl" ELSE "sp"]]

\* updateDescriptionTag, on the attributes of the tag.
updateDescriptionTag(attrs, coord, ts) ==
    LET clean == StripGpsAttrs(attrs)
        hasNs == \E i \in 1..Len(clean) : clean[i].n = exifNamespaceAttr
    IN  insertTagAttributes(clean, UpdateAttrs(coord, ts, hasNs))

NotGpsNode(nd) == ~(nd.k = "gps" /\ nd.n \in GpsNameSet)

\* stripGPSTagsFromXMP: every complete exif:GPS* element goes, wherever it is.
StripGpsNodes(nodes) == SelectAt(nodes, {i \in 1..Len(nodes) : NotGpsNode(nodes[i])}, 1)
stripGPSTagsFromXMP(c) ==
    [c EXCEPT !.pktOther = StripGpsNodes(@),
              !.rdfOther = StripGpsNodes(@),
              !.descs = [i \in 1..Len(@) |->
                            [@[i] EXCEPT !.inner = StripGpsNodes(@)]]]

\* descriptionTagRegex finds the first "<rdf:Description ...>" of the text;
\* a document written by marshalXMP has <Description ...> and no match.
HasDescriptionTag(c) == c.k = "doc" /\ c.fmt = "xmp" /\ Len(c.descs) > 0

\* mergeGPSInPlace: [err, content]
mergeGPSInPlace(existing, coord, ts) ==
    IF ~HasDescriptionTag(existing)
    THEN [err |-> "no_description", content |-> existing]
    ELSE [err |-> "nil",
          content |-> stripGPSTagsFromXMP(
              [existing EXCEPT !.descs[1].attrs = updateDescriptionTag(@, coord, ts)])]

\* bytes.TrimSpace(existing) is empty: no file, an empty or a blank file.
IsEmptyContent(c) == c.k \in {"absent", "blank"}

\* mergeSidecar
mergeSidecar(existing, coord, ts) ==
    IF IsEmptyContent(existing)
    THEN [err |-> "nil", content |-> BuildSidecar(coord, ts)]
    ELSE mergeGPSInPlace(existing, coord, ts)

\* The attribute names hasGPSData looks for as "exif:gps<name>=".
GpsDataAttrNames == {"GPSLatitude", "GPSLongitude", "GPSAltitude",
                     "GPSTimeStamp", "GPSDateStamp"}

\* hasGPSData: a text search for "exif:gps<name>=" and "<exif:gps<name>",
\* then for complete exif:GPS* elements.  Attributes written by marshalXMP
\* carry a generated prefix and are not found.
hasGPSData(c) ==
    /\ c.k = "doc"
    /\ \/ /\ c.fmt = "xmp"
          /\ \E a \in Range(AllAttrs(c)) : a.n \in GpsDataAttrNames
       \/ \E nd \in Range(AllNodes(c)) : ~NotGpsNode(nd)

\* MergeAndWrite: the returned error, the returned flag, whether os.WriteFile
\* was called, and the file content afterwards.  io is the file system's
\* answer: "ok", "readErr" (the sidecar exists but cannot be read) or
\* "writeErr" (the sidecar cannot be opened for writing).
MergeAndWrite(existing, coord, ts, overwrite, io) ==
    IF io = "readErr" /\ existing.k # "absent"
    THEN [err |-> "read", wrote |-> FALSE, written |-> FALSE, content |-> existing]
    ELSE IF ~overwrite /\ existing.k \notin {"absent"} /\ hasGPSData(existing)
    THEN [err |-> "gps_present", wrote |-> FALSE, written |-> FALSE, content |-> existing]
    ELSE LET m == mergeSidecar(existing, coord, ts)
         IN  IF m.err # "nil"
             THEN [err |-> m.err, wrote |-> FALSE, written |-> FALSE, content |-> existing]
             ELSE IF io = "writeErr"
             THEN [err |-> "write", wrote |-> FALSE, written |-> FALSE, content |-> existing]
             ELSE [err |-> "nil", wrote |-> TRUE, written |-> TRUE, content |-> m.content]

(***************************************************************************)
(* Keyword merge (writer.go, second part)                                  *)
(***************************************************************************)
amp  == <<"&", "a", "m", "p", ";">>
lt   == <<"&", "l", "t", ";">>
gt   == <<"&", "g", "t", ";">>
quot == <<"&", "q", "u", "o", "t", ";">>
apos == <<"&", "#", "3", "9", ";">>

\* xmlEscape: the five characters become entities.
EscapeChar(c) ==
    CASE c = "&"  -> amp
      [] c = "<"  -> lt
      [] c = ">"  -> gt
      [] c = "\"" -> quot
      [] c = "'"  -> apos
      [] OTHER    -> <<c>>
xmlEscape(s) == Flatten([i \in 1..Len(s) |-> EscapeChar(s[i])])

\* htmlUnescape: a single left-to-right pass replacing the five entities.
RECURSIVE UnescapeFrom(_, _)
UnescapeFrom(s, i) ==
    IF i > Len(s) THEN <<>>
    ELSE IF HasPrefixAt(s, i, amp)  THEN <<"&">>  \o UnescapeFrom(s, i + Len(amp))
    ELSE IF HasPrefixAt(s, i, lt)   THEN <<"<">>  \o UnescapeFrom(s, i + Len(lt))
    ELSE IF HasPrefixAt(s, i, gt)   THEN <<">">>  \o UnescapeFrom(s, i + Len(gt))
    ELSE IF HasPrefixAt(s, i, quot) THEN <<"\"">> \o UnescapeFrom(s, i + Len(quot))
    ELSE IF HasPrefixAt(s, i, apos) THEN <<"'">>  \o UnescapeFrom(s, i + Len(apos))
    ELSE <<s[i]>> \o UnescapeFrom(s, i + 1)
htmlUnescape(s) == UnescapeFrom(s, 1)

\* normalizeTags: trims, drops empty tags and case-insensitive repeats,
\* keeping the first spelling.
RECURSIVE NormalizeFrom(_, _, _)
NormalizeFrom(tags, i, seen) ==
    IF i > Len(tags) THEN <<>>
    ELSE LET t == TrimSpace(tags[i])
             l == ToLower(t)
         IN  IF t = <<>> \/ l \in seen THEN NormalizeFrom(tags, i + 1, seen)
             ELSE <<t>> \o NormalizeFrom(tags, i + 1, seen \cup {l})
normalizeTags(tags) == NormalizeFrom(tags, 1, {})

LowerSet(ss) == {ToLower(ss[i]) : i \in 1..Len(ss)}

\* containsAll
containsAll(existing, required) ==
    \/ Len(required) = 0
    \/ \A i \in 1..Len(required) : ToLower(required[i]) \in LowerSet(existing)

\* The keywords of one dc:subject block: each rdf:li, unescaped and trimmed,
\* empty ones dropped.
RECURSIVE LiKeywords(_)
LiKeywords(li) ==
    IF li = <<>> THEN <<>>
    ELSE LET val == TrimSpace(htmlUnescape(li[1]))
         IN  (IF val # <<>> THEN <<val>> ELSE <<>>) \o LiKeywords(Tail(li))

\* extractKeywords: over every dc:subject block of the inner XML.
RECURSIVE extractKeywords(_)
extractKeywords(inner) ==
    IF inner = <<>> THEN <<>>
    ELSE (IF inner[1].k = "subj" THEN LiKeywords(inner[1].li) ELSE <<>>)
         \o extractKeywords(Tail(inner))

\* stripSubject: the inner XML without its dc:subject blocks.
stripSubject(inner) == SelectAt(inner, {i \in 1..Len(inner) : inner[i].k # "subj"}, 1)

\* buildSubjectBlock
buildSubjectBlock(keywords) == SubjNode([i \in 1..Len(keywords) |-> xmlEscape(keywords[i])])

\* The first loop of mergeKeywordsInner: the existing keywords that are kept.
RECURSIVE KeepExisting(_, _, _, _, _)
KeepExisting(existing, i, tagSet, overwrite, seen) ==
    IF i > Len(existing) THEN <<>>
    ELSE LET lower == ToLower(existing[i])
         IN  IF overwrite /\ lower \in tagSet
             THEN KeepExisting(existing, i + 1, tagSet, overwrite, seen)
             ELSE IF lower \in seen
             THEN KeepExisting(existing, i + 1, tagSet, overwrite, seen)
             ELSE <<existing[i]>>
                  \o KeepExisting(existing, i + 1, tagSet, overwrite, seen \cup {lower})

\* The second loop: the requested tags not yet seen.
RECURSIVE AddTags(_, _, _)
AddTags(tags, i, seen) ==
    IF i > Len(tags) THEN <<>>
    ELSE LET lower == ToLower(tags[i])
         IN  IF lower \in seen THEN AddTags(tags, i + 1, seen)
             ELSE <<tags[i]>> \o AddTags(tags, i + 1, seen \cup {lower})

\* A plausible slip: with overwrite off the merge never reports "nothing to do".
mergeKeywordsInnerAlways(inner, tags, overwrite) ==
    LET existing == extractKeywords(inner)
        kept     == KeepExisting(existing, 1, LowerSet(tags), overwrite, {})
        merged   == SortStrings(kept \o AddTags(tags, 1, LowerSet(kept)))
    IN  [inner |-> stripSubject(inner) \o <<buildSubjectBlock(merged)>>, changed |-> TRUE]

\* mergeKeywordsInner: [inner, changed]
mergeKeywordsInner(inner, tags, overwrite) ==
    LET existing == extractKeywords(inner)
        kept     == KeepExisting(existing, 1, LowerSet(tags), overwrite, {})
        merged   == SortStrings(kept \o AddTags(tags, 1, LowerSet(kept)))
    IN  IF ~overwrite /\ containsAll(existing, tags)
        THEN [inner |-> inner, changed |-> FALSE]
        ELSE [inner |-> stripSubject(inner) \o <<buildSubjectBlock(merged)>>,
              changed |-> TRUE]

\* parseXMP: xml.Unmarshal keeps what the structs xmpPacket, rdfContainer and
\* rdfDescription have fields for: the rdf:Description elements with their
\* attributes and raw inner XML.  Children of xmpmeta and rdf:RDF that are not
\* rdf:Description have no field and are not kept.
parseXMP(c) ==
    IF c.k = "doc" /\ Len(c.descs) > 0
    THEN [err |-> "nil", descs |-> c.descs, gen |-> c.gen]
    ELSE [err |-> "unsupported", descs |-> <<>>, gen |-> 0]

\* marshalXMP: the packet header, the encoder's rendering of the parsed
\* structure, the packet trailer.
marshalXMP(pkt) ==
    DocOf("go", pkt.gen + 1, <<>>, <<>>,
          [i \in 1..Len(pkt.descs) |->
              DescOf([j \in 1..Len(pkt.descs[i].attrs) |->
                         [pkt.descs[i].attrs[j] EXCEPT !.sep = "sp"]],
                     FALSE, pkt.descs[i].inner)])

DeclaresExif(d) == \E j \in 1..Len(d.attrs) : d.attrs[j].n = exifNamespaceAttr

\* selectDescription: the first description declaring the exif namespace,
\* else the first one (1-based here).
selectDescription(descs) ==
    IF Len(descs) = 0 THEN 0
    ELSE IF \E i \in 1..Len(descs) : DeclaresExif(descs[i])
    THEN CHOOSE i \in 1..Len(descs) :
            /\ DeclaresExif(descs[i])
            /\ \A j \in 1..(i - 1) : ~DeclaresExif(descs[j])
    ELSE 1

\* ensureDCNamespace
ensureDCNamespace(attrs) ==
    IF \E j \in 1..Len(attrs) : attrs[j].n = dcNamespaceAttr THEN attrs
    ELSE Append(attrs, AttrOf(dcNamespaceAttr, dcNamespace, "sp"))

\* buildKeywordsSidecar: the keywords in the order given.
buildKeywordsSidecar(keywords) ==
    DocOf("xmp", 0, <<>>, <<>>,
          <<DescOf(<<aboutAttr, AttrOf(dcNamespaceAttr, dcNamespace, "sp")>>, FALSE,
                   <<buildSubjectBlock(keywords)>>)>>)

\* mergeKeywordPayload: [err, changed, content]
mergeKeywordPayload(existing, tags, overwrite) ==
    IF IsEmptyContent(existing)
    THEN [err |-> "nil", changed |-> TRUE, content |-> buildKeywordsSidecar(tags)]
    ELSE LET doc == parseXMP(existing)
         IN  IF doc.err # "nil"
             THEN [err |-> "parse", changed |-> FALSE, content |-> existing]
             ELSE LET descIdx == selectDescription(doc.descs)
                      desc    == doc.descs[descIdx]
                      m       == mergeKeywordsInner(desc.inner, tags, overwrite)
                      newDesc == [desc EXCEPT !.attrs = ensureDCNamespace(@),
                                              !.inner = m.inner]
                  IN  IF ~m.changed
                      THEN [err |-> "keywords_present", changed |-> FALSE,
                            content |-> existing]
                      ELSE [err |-> "nil", changed |-> TRUE,
                            content |-> marshalXMP([doc EXCEPT !.descs[descIdx] = newDesc])]

\* A plausible slip: the sidecar is opened for writing, and so emptied,
\* before the merged payload is known to exist.
MergeKeywordsOpenFirst(existing, rawTags, overwrite, io) ==
    LET tags == normalizeTags(rawTags)
    IN  IF Len(tags) = 0
        THEN [err |-> "no_tags", wrote |-> FALSE, written |-> FALSE, content |-> existing]
        ELSE IF io = "readErr" /\ existing.k # "absent"
        THEN [err |-> "read", wrote |-> FALSE, written |-> FALSE, content |-> existing]
        ELSE LET p == mergeKeywordPayload(existing, tags, overwrite)
             IN  IF p.err # "nil" \/ ~p.changed
                 THEN [err |-> IF p.err # "nil" THEN p.err ELSE "keywords_present",
                       wrote |-> FALSE, written |-> io # "writeErr", content |-> Blank]
                 ELSE IF io = "writeErr"
                 THEN [err |-> "write", wrote |-> FALSE, written |-> FALSE,
                       content |-> existing]
                 ELSE [err |-> "nil", wrote |-> TRUE, written |-> TRUE,
                       content |-> p.content]

\* MergeKeywords: [err, wrote, written, content], io as for MergeAndWrite.
MergeKeywords(existing, rawTags, overwrite, io) ==
    LET tags == normalizeTags(rawTags)
    IN  IF Len(tags) = 0
        THEN [err |-> "no_tags", wrote |-> FALSE, written |-> FALSE, content |-> existing]
        ELSE IF io = "readErr" /\ existing.k # "absent"
        THEN [err |-> "read", wrote |-> FALSE, written |-> FALSE, content |-> existing]
        ELSE LET p == mergeKeywordPayload(existing, tags, overwrite)
             IN  IF p.err # "nil"
                 THEN [err |-> p.err, wrote |-> FALSE, written |-> FALSE,
                       content |-> existing]
                 ELSE IF ~p.changed
                 THEN [err |-> "keywords_present", wrote |-> FALSE, written |-> FALSE,
                       content |-> existing]
                 ELSE IF io = "writeErr"
                 THEN [err |-> "write", wrote |-> FALSE, written |-> FALSE,
                       content |-> existing]
                 ELSE [err |-> "nil", wrote |-> TRUE, written |-> TRUE,
                       content |-> p.content]

(***************************************************************************)
(* State                                                                   *)
(*   fs     the file system: path -> content                               *)
(*   call   the last call of the merge engine: operation, arguments, the   *)
(*          content before, the returned error and flag, write performed,  *)
(*          and whether it repeats the arguments of a call that succeeded  *)
(*          just before it                                                 *)
(*   run    the state of the running workflow (series or geotagging)       *)
(***************************************************************************)
VARIABLES fs, call, run

vars == <<fs, call, run>>

\* The content of a path; a path never written holds no file.
ReadFile(files, path) == IF path \in DOMAIN files THEN files[path] ELSE Absent

\* The file system after a merge call with result r on path: os.WriteFile
\* replaces (or creates) the file at path when the call got that far.
WriteFile(files, path, r) ==
    IF r.written
    THEN [p \in DOMAIN files \cup {path} |-> IF p = path THEN r.content ELSE files[p]]
    ELSE files

(***************************************************************************)
(* The merge engine on one sidecar                                         *)
(***************************************************************************)
\* Bounds of the merge-engine universe.
MaxGen == 2

sidecarA == <<"a", ".", "x", "m", "p">>

NoCoord == [lat |-> 0, lon |-> 0, alt |-> NoAlt]
NoCall == [op |-> "none", path |-> <<>>, overwrite |-> FALSE, tags |-> <<>>, coord |-> NoCoord,
           ts |-> 0, io |-> "ok", before |-> Absent, err |-> "nil",
           wrote |-> FALSE, written |-> FALSE, repeat |-> FALSE]

\* Coordinates and times offered to MergeAndWrite: 50 deg 30.5 min N / 8 deg 59.95 min E
\* (which rounds up to 9 deg) without altitude, and a southern/western point
\* 12.34 m below sea level.
Fixes == { [coord |-> [lat |-> 60610, lon |-> 10799, alt |-> NoAlt], ts |-> 3723456],
           [coord |-> [lat |-> -1200, lon |-> -30, alt |-> -1234], ts |-> 86400000] }

tagA      == <<"a">>
tagUpperA == <<"A">>
tagB      == <<"b">>
tagUpperB == <<"B">>
tagPadA   == <<" ", "a", " ">>
tagAmp    == <<"x", "&", "y">>
tagBlank  == <<" ">>

TagLists == { <<tagBlank>>, <<tagA>>, <<tagUpperA, tagA>>, <<tagB, tagA>>,
              <<tagUpperB, tagPadA>>, <<tagAmp>> }

IoAnswers == {"ok", "readErr", "writeErr"}

ratingAttr(sep) == AttrOf("xmp:Rating", <<"5">>, sep)
labelNode == ElemNode("xmp:Label", <<"r", "e", "d">>)
historyNode == ElemNode("xmpMM:History", <<"h">>)

\* The GPS fields of a coordinate as child elements, the way some tools
\* write them.
GpsElems(coord, ts) ==
    [i \in 1..Len(BuildAttrs(coord, ts)) |->
        GpsNode(BuildAttrs(coord, ts)[i].n, BuildAttrs(coord, ts)[i].v)]

oldCoord == [lat |-> 2400, lon |-> 2400, alt |-> 500]
oldStamp == 1 * MsPerSecond

\* Sidecars found on disk before the first call.
InitContents ==
    { Absent, Blank, Junk,
      \* a tool-written sidecar with unrelated attributes (one per line) and an
      \* unrelated element
      DocOf("xmp", 0, <<>>, <<>>,
            <<DescOf(<<aboutAttr, ratingAttr("nl")>>, FALSE, <<labelNode>>)>>),
      \* GPS stored as child elements, keywords "A" (twice, two spellings) and "b"
      DocOf("xmp", 0, <<>>, <<>>,
            <<DescOf(<<aboutAttr, AttrOf(exifNamespaceAttr, exifNamespace, "sp")>>, FALSE,
                     <<labelNode>> \o GpsElems(oldCoord, oldStamp)
                     \o <<SubjNode(<<tagUpperA, tagB, tagA>>)>>)>>),
      \* a self-closing description, with other children beside it
      DocOf("xmp", 0, <<historyNode>>, <<labelNode>>,
            <<DescOf(<<aboutAttr, ratingAttr("sp")>>, TRUE, <<>>)>>),
      \* two descriptions: keywords in the first, GPS attributes in the second
      DocOf("xmp", 0, <<>>, <<>>,
            <<DescOf(<<aboutAttr, AttrOf(dcNamespaceAttr, dcNamespace, "sp")>>, FALSE,
                     <<SubjNode(<<xmlEscape(tagAmp)>>), labelNode>>),
              DescOf(<<aboutAttr, AttrOf(exifNamespaceAttr, exifNamespace, "sp")>>
                     \o BuildAttrs(oldCoord, oldStamp), TRUE, <<>>)>>) }

IdleRun == [kind |-> "none", pc |-> "done"]

InitXmp ==
    /\ fs \in [{sidecarA} -> InitContents]
    /\ call = NoCall
    /\ run = IdleRun

\* One call of xmp.MergeAndWrite on the sidecar.
DoMergeAndWrite ==
    /\ run.kind = "none"
    /\ \E fix \in Fixes, overwrite \in BOOLEAN, io \in IoAnswers :
        \E r \in {MergeAndWrite(fs[sidecarA], fix.coord, fix.ts, overwrite, io)} :
            /\ fs' = WriteFile(fs, sidecarA, r)
            /\ call' = [op |-> "MergeAndWrite", path |-> sidecarA, overwrite |-> overwrite, tags |-> <<>>,
                        coord |-> fix.coord, ts |-> fix.ts, io |-> io, before |-> fs[sidecarA],
                        err |-> r.err, wrote |-> r.wrote, written |-> r.written,
                        repeat |-> /\ call.op = "MergeAndWrite"
                                   /\ call.err = "nil"
                                   /\ call.coord = fix.coord
                                   /\ call.ts = fix.ts
                                   /\ call.overwrite = overwrite]
            /\ UNCHANGED run

\* One call of xmp.MergeKeywords on the sidecar.
DoMergeKeywords ==
    /\ run.kind = "none"
    /\ \E tags \in TagLists, overwrite \in BOOLEAN, io \in IoAnswers :
        \E r \in {MergeKeywords(fs[sidecarA], tags, overwrite, io)} :
            /\ r.content.k = "doc" => r.content.gen <= MaxGen
            /\ fs' = WriteFile(fs, sidecarA, r)
            /\ call' = [op |-> "MergeKeywords", path |-> sidecarA, overwrite |-> overwrite, tags |-> tags,
                        coord |-> NoCoord, ts |-> 0, io |-> io, before |-> fs[sidecarA],
                        err |-> r.err, wrote |-> r.wrote, written |-> r.written,
                        repeat |-> /\ call.op = "MergeKeywords"
                                   /\ call.err = "nil"
                                   /\ call.tags = tags
                                   /\ call.overwrite = overwrite]
            /\ UNCHANGED run

NextXmp == DoMergeAndWrite \/ DoMergeKeywords

SpecXmp == InitXmp /\ [][NextXmp]_vars

(***************************************************************************)
(* Series tagging run (internal/series)                                     *)
(***************************************************************************)
\* A plausible slip: a pair counts as a series.
minSeriesLenTwo == 3 - 1

minSeriesLen == 3

\* milliseconds
maxGapDefault == 1100
maxGapSequential == 2200

\* 0.7 EV, in hundredths of an EV
evHDRThreshold   == 70

ModeAuto  == "auto"
ModeHDR   == "hdr"
ModeFocus == "focus"

\* The series type keyword.
seriesTypeTag == <<"h", "d", "r", "_", "m", "o", "d", "e">>

rawExt ==
    { <<".", "3", "f", "r">>, <<".", "a", "r", "w">>, <<".", "c", "r", "2">>,
      <<".", "c", "r", "3">>, <<".", "d", "n", "g">>, <<".", "e", "r", "f">>,
      <<".", "k", "d", "c">>, <<".", "m", "r", "w">>, <<".", "n", "e", "f">>,
      <<".", "n", "r", "w">>, <<".", "o", "r", "f">>, <<".", "p", "e", "f">>,
      <<".", "r", "a", "f">>, <<".", "r", "a", "w">>, <<".", "r", "w", "2">>,
      <<".", "r", "w", "l">>, <<".", "s", "r", "2">>, <<".", "s", "r", "f">>,
      <<".", "s", "r", "w">>, <<".", "x", "3", "f">> }

\* media.SupportedRaw
SupportedRaw(path) == ToLower(Ext(path)) \in rawExt

isHDRMergedCandidate(ext) ==
    ToLower(ext) \in { <<".", "j", "p", "g">>, <<".", "j", "p", "e", "g">>,
                       <<".", "h", "i", "f">> }

\* strings.Contains
Contains(s, sub) == \E i \in 1..(Len(s) + 1) : HasPrefixAt(s, i, sub)

isCanon(makeStr) == Contains(ToLower(makeStr), <<"c", "a", "n", "o", "n">>)

\* strconv.Atoi on a string of digits (short enough not to overflow).
RECURSIVE Atoi(_)
Atoi(ds) ==
    IF ds = <<>> THEN 0
    ELSE 10 * Atoi(SubSeq(ds, 1, Len(ds) - 1)) + DigitVal(ds[Len(ds)])

\* The index of the last character of name[1..i] that is not a digit.
RECURSIVE LastNonDigit(_, _)
LastNonDigit(name, i) ==
    IF i >= 1 /\ IsDigit(name[i]) THEN LastNonDigit(name, i - 1) ELSE i

\* parseSequence: the number the file name ends with, -1 when there is none.
parseSequence(path) ==
    LET name == TrimSuffix(Base(path), Ext(path))
        i    == LastNonDigit(name, Len(name))
    IN  IF name = <<>> \/ i = Len(name) THEN -1
        ELSE Atoi(SubSeq(name, i + 1, Len(name)))

\* parseExtraTags: the comma-separated parts, trimmed, empty ones dropped.
RECURSIVE SplitComma(_, _)
SplitComma(raw, cur) ==
    IF raw = <<>> THEN <<cur>>
    ELSE IF raw[1] = "," THEN <<cur>> \o SplitComma(Tail(raw), <<>>)
    ELSE SplitComma(Tail(raw), Append(cur, raw[1]))
parseExtraTags(raw) ==
    IF raw = <<>> THEN <<>>
    ELSE LET parts == [i \in 1..Len(SplitComma(raw, <<>>)) |->
                          TrimSpace(SplitComma(raw, <<>>)[i])]
         IN  SelectAt(parts, {i \in 1..Len(parts) : parts[i] # <<>>}, 1)

\* The order of sort.Slice in run: capture time, then sequence number, then
\* path.
JobLess(a, b) ==
    IF a.time = b.time
    THEN IF a.seq # b.seq THEN a.seq < b.seq ELSE StrLess(a.path, b.path)
    ELSE a.time < b.time

RECURSIVE InsertJob(_, _)
InsertJob(x, sorted) ==
    IF sorted = <<>> THEN <<x>>
    ELSE IF JobLess(x, sorted[1]) THEN <<x>> \o sorted
    ELSE <<sorted[1]>> \o InsertJob(x, Tail(sorted))
RECURSIVE SortJobs(_)
SortJobs(jobs) ==
    IF jobs = <<>> THEN <<>>
    ELSE InsertJob(jobs[Len(jobs)], SortJobs(SubSeq(jobs, 1, Len(jobs) - 1)))

\* sameSeries
\* A plausible slip: the sequence numbers are not looked at.
sameSeriesGapOnly(prev, next) ==
    LET gap == next.time - prev.time
    IN  gap >= 0 /\ gap <= maxGapDefault

sameSeries(prev, next) ==
    LET gap == next.time - prev.time
    IN  IF prev.seq >= 0 /\ next.seq >= 0
        THEN IF next.seq - prev.seq # 1 THEN FALSE
             ELSE gap >= 0 /\ gap <= maxGapSequential
        ELSE gap >= 0 /\ gap <= maxGapDefault

\* buildGroups: the groups closed so far, followed by the current one.
RECURSIVE GroupFrom(_, _, _)
GroupFrom(jobs, i, current) ==
    IF i > Len(jobs) THEN <<[jobs |-> current, forced |-> "none"]>>
    ELSE IF sameSeries(current[Len(current)], jobs[i])
    THEN GroupFrom(jobs, i + 1, Append(current, jobs[i]))
    ELSE <<[jobs |-> current, forced |-> "none"]>> \o GroupFrom(jobs, i + 1, <<jobs[i]>>)
buildGroups(jobs) ==
    IF Len(jobs) = 0 THEN <<>> ELSE GroupFrom(jobs, 2, <<jobs[1]>>)

\* durationFromExposure, in milliseconds
durationFromExposure(exp) == IF exp <= 0 THEN 0 ELSE exp
\* sumTolerance: 50 ms + 1% of the exposure
sumTolerance(exp) == 50 + (durationFromExposure(exp) \div 100)
withinTolerance(a, b, tol) == Abs(b - a) <= tol

\* A plausible slip: the frames are checked against each other only, not
\* against the merged output.
validateHDRTimingNoAnchor(j1, j2, j3, hint) ==
    /\ withinTolerance(j1.time + durationFromExposure(j1.exp), j2.time, sumTolerance(j1.exp))
    /\ withinTolerance(j2.time + durationFromExposure(j2.exp), j3.time, sumTolerance(j2.exp))

\* validateHDRTiming
validateHDRTiming(j1, j2, j3, hint) ==
    /\ withinTolerance(j1.time, hint.time, 200)
    /\ withinTolerance(j1.time + durationFromExposure(j1.exp), j2.time, sumTolerance(j1.exp))
    /\ withinTolerance(j2.time + durationFromExposure(j2.exp), j3.time, sumTolerance(j2.exp))

\* sort.Slice of the hints by sequence number (the hints of one run have
\* distinct sequence numbers).
RECURSIVE SortHints(_)
SortHints(hints) ==
    IF hints = <<>> THEN <<>>
    ELSE LET m == CHOOSE i \in 1..Len(hints) :
                     \A k \in 1..Len(hints) :
                        hints[i].seq < hints[k].seq \/ (hints[i].seq = hints[k].seq /\ i <= k)
         IN  <<hints[m]>> \o SortHints(SelectAt(hints, (1..Len(hints)) \ {m}, 1))

\* jobBySeq: for each sequence number the last job of the sorted list that
\* carries it.
JobBySeq(jobs, seq) ==
    LET at == {i \in 1..Len(jobs) : jobs[i].seq = seq}
    IN  IF at = {} THEN 0 ELSE CHOOSE i \in at : \A k \in at : k <= i

\* The loop of detectHDRGroups over the sorted hints: the triplets accepted,
\* given the paths assigned so far.
RECURSIVE HdrFrom(_, _, _, _)
HdrFrom(hints, h, jobs, assigned) ==
    IF h > Len(hints) THEN <<>>
    ELSE LET hint == hints[h]
             i1 == JobBySeq(jobs, hint.seq - 3)
             i2 == JobBySeq(jobs, hint.seq - 2)
             i3 == JobBySeq(jobs, hint.seq - 1)
         IN  IF \/ hint.seq <= 0
                \/ hint.isRaw
                \/ i1 = 0 \/ i2 = 0 \/ i3 = 0
             THEN HdrFrom(hints, h + 1, jobs, assigned)
             ELSE IF \/ jobs[i1].seq + 1 # jobs[i2].seq
                     \/ jobs[i2].seq + 1 # jobs[i3].seq
                     \/ jobs[i1].path \in assigned
                     \/ jobs[i2].path \in assigned
                     \/ jobs[i3].path \in assigned
                     \/ ~validateHDRTiming(jobs[i1], jobs[i2], jobs[i3], hint)
             THEN HdrFrom(hints, h + 1, jobs, assigned)
             ELSE <<[jobs |-> <<jobs[i1], jobs[i2], jobs[i3]>>, forced |-> ModeHDR]>>
                  \o HdrFrom(hints, h + 1, jobs,
                             assigned \cup {jobs[i1].path, jobs[i2].path, jobs[i3].path})

\* detectHDRGroups: the anchored triplets.
detectHDRGroups(hints, jobs) ==
    IF Len(hints) = 0 \/ Len(jobs) = 0 THEN <<>>
    ELSE HdrFrom(SortHints(hints), 1, jobs, {})

\* A plausible slip: the frames of the triplets are not taken out of the
\* list that goes to the sequential grouping.
AssignedPathsNone(groups) == {}

\* The paths detectHDRGroups assigned.
AssignedPaths(groups) ==
    {groups[g].jobs[k].path : g \in 1..Len(groups), k \in 1..3}

\* log2 of the exposure time in seconds, of the squared f-number and of
\* ISO/100, in hundredths, for the settings the model's photos use.
Log2Exposure == (250 :> -200) @@ (500 :> -100) @@ (800 :> -32) @@ (1000 :> 0)
Log2FNumberSq == (28 :> 297) @@ (40 :> 400) @@ (56 :> 497)
Log2Iso == (100 :> 0) @@ (200 :> 100) @@ (400 :> 200)

\* A plausible slip: the sensitivity is left out of the exposure value.
evNoIso(meta) ==
    IF meta.exp <= 0 \/ meta.fnum <= 0 THEN 0
    ELSE Log2FNumberSq[meta.fnum] - Log2Exposure[meta.exp]

\* ev, in hundredths of an EV
ev(meta) ==
    IF meta.exp <= 0 \/ meta.fnum <= 0 THEN 0
    ELSE Log2FNumberSq[meta.fnum] - Log2Exposure[meta.exp]
         - (IF meta.iso > 0 THEN Log2Iso[meta.iso] ELSE 0)

\* shouldTagHDR
shouldTagHDR(group, mode) ==
    IF Len(group) = 0 THEN FALSE
    ELSE IF mode = ModeHDR THEN TRUE
    ELSE IF \E k \in 1..Len(group) : group[k].hdrHint THEN TRUE
    ELSE LET evValues == {ev(group[k]) : k \in {x \in 1..Len(group) :
                                group[x].exp > 0 /\ group[x].fnum > 0}}
         IN  IF evValues = {} THEN FALSE
             ELSE \E hi \in evValues, lo \in evValues :
                     /\ \A v \in evValues : lo <= v /\ v <= hi
                     /\ hi - lo >= evHDRThreshold

(* Series tagging run: state and steps                                     *)
(***************************************************************************)
\* The random prefix Validate draws when none is given: six characters of
\* A-Z0-9.
RandomPrefixes == { <<"Q", "7", "X", "A", "0", "B">>, <<"Z", "Z", "1", "2", "C", "D">> }

\* strings.ToLower on the spellings of a mode the callers pass.
ModeToLower(mode) ==
    IF mode = "HDR" THEN "hdr"
    ELSE IF mode = "Focus" THEN "focus"
    ELSE IF mode = "AUTO" THEN "auto"
    ELSE mode

\* Options.Validate (series): [err, opts]
Validate(opts, rnd) ==
    LET lower  == ModeToLower(opts.mode)
        mode   == IF lower = "" THEN ModeAuto ELSE lower
        prefix == IF TrimSpace(opts.prefix) = <<>> THEN rnd ELSE TrimSpace(opts.prefix)
    IN  IF TrimSpace(opts.input) = <<>>
        THEN [err |-> "input path is required", opts |-> opts]
        ELSE IF mode \notin {ModeAuto, ModeHDR, ModeFocus}
        THEN [err |-> "invalid mode", opts |-> opts]
        ELSE IF Len(prefix) < 3
        THEN [err |-> "prefix must be at least 3 characters", opts |-> opts]
        ELSE [err |-> "nil",
              opts |-> [opts EXCEPT !.input = TrimSpace(@), !.mode = mode, !.prefix = prefix,
                                    !.startIndex = IF @ < 1 THEN 1 ELSE @]]

\* A plausible slip: the merged outputs are counted in the total too.
SeriesTotalWithMerged(files) ==
    Cardinality({i \in 1..Len(files) : ToLower(Ext(files[i].path)) # xmpExt})

\* The files the progress total counts: neither sidecars nor merged outputs.
SeriesTotal(files) ==
    Cardinality({i \in 1..Len(files) :
                    /\ ToLower(Ext(files[i].path)) # xmpExt
                    /\ ~isHDRMergedCandidate(ToLower(Ext(files[i].path)))})

\* A plausible slip: the record is appended but the counter is not raised.
ReportUncounted(r, counter, path, status, message) ==
    [r EXCEPT !.results = Append(@, [path |-> path, status |-> status, message |-> message]),
              !.completed = @ + 1,
              !.progress = IF r.opts.progress /\ r.total # 0
                           THEN Append(@, r.completed + 1) ELSE @]

\* One per-file record: the counter goes up, the record is appended, the
\* file is complete and the progress callback, when there is one, is told.
Report(r, counter, path, status, message) ==
    [r EXCEPT !.counters[counter] = @ + 1,
              !.results = Append(@, [path |-> path, status |-> status, message |-> message]),
              !.completed = @ + 1,
              !.progress = IF r.opts.progress /\ r.total # 0
                           THEN Append(@, r.completed + 1) ELSE @]

RECURSIVE ReportAll(_, _, _, _, _, _)
ReportAll(r, counter, jobs, k, status, message) ==
    IF k > Len(jobs) THEN r
    ELSE ReportAll(Report(r, counter, jobs[k].path, status, message),
                   counter, jobs, k + 1, status, message)

\* fmt.Sprintf("%s_%05d", prefix, idx)
\* A plausible slip: the index is printed without leading zeros.
SeriesIDUnpadded(prefix, idx) == prefix \o <<"_">> \o IntToStr(idx)

Pad5(n) ==
    LET d == IntToStr(n)
    IN  [i \in 1..(IF Len(d) < 5 THEN 5 - Len(d) ELSE 0) |-> "0"] \o d
SeriesID(prefix, idx) == prefix \o <<"_">> \o Pad5(idx)

NoCounters ==
    [c \in {"processed", "skipped", "unchanged", "out_of_track", "failed", "meta_error"} |-> 0]

NoGpx == [ok |-> FALSE, points |-> <<>>]

\* The state of a run when Run is called: nothing read yet.
NewRun(kind, files, opts, gpx) ==
    [kind |-> kind, pc |-> "start", gpx |-> gpx, err |-> "nil", cancelled |-> FALSE,
     files |-> files, opts |-> opts, i |-> 1,
     jobs |-> <<>>, hints |-> <<>>, autoJobs |-> <<>>, groups |-> <<>>,
     g |-> 1, j |-> 1, seriesIdx |-> 0, seriesID |-> <<>>, ids |-> <<>>,
     merged |-> {}, tagged |-> <<>>, track |-> <<>>, offset |-> 0,
     counters |-> NoCounters, results |-> <<>>,
     completed |-> 0, total |-> 0, progress |-> <<>>]

Fail(r, err) == [r EXCEPT !.pc = "error", !.err = err]

\* run, up to the first loop: options, file list, progress total.
SeriesBegin ==
    /\ run.kind = "series"
    /\ run.pc = "start"
    /\ \E rnd \in RandomPrefixes :
         \E v \in {Validate(run.opts, rnd)} :
            run' = IF v.err # "nil" THEN Fail(run, v.err)
                   ELSE IF Len(run.files) = 0 THEN Fail(run, "no files found to process")
                   ELSE [run EXCEPT !.opts = v.opts,
                                    !.pc = "collect",
                                    !.total = SeriesTotal(run.files),
                                    !.progress = IF v.opts.progress /\ SeriesTotal(run.files) # 0
                                                 THEN <<0>> ELSE <<>>]
    /\ UNCHANGED <<fs, call>>

\* One iteration of the first loop: the context check, then one file.
SeriesCollect ==
    /\ run.kind = "series"
    /\ run.pc = "collect"
    /\ run.i <= Len(run.files)
    /\ \E f \in {run.files[run.i]} :
       \E next \in {[run EXCEPT !.i = @ + 1]} :
       \E ext \in {ToLower(Ext(f.path))} :
         run' = IF run.cancelled THEN Fail(run, "context canceled")
                ELSE IF ext = xmpExt THEN next
                ELSE IF isHDRMergedCandidate(ext)
                THEN IF ~f.metaOk \/ ~isCanon(f.make) THEN next
                     ELSE [next EXCEPT !.hints = Append(@,
                              [path |-> f.path, time |-> f.time, exp |-> f.exp,
                               seq |-> parseSequence(f.path), isRaw |-> FALSE])]
                ELSE IF ~SupportedRaw(f.path)
                THEN Report(next, "skipped", f.path, "skipped", "Not a RAW file")
                ELSE IF ~f.metaOk
                THEN Report(next, "meta_error", f.path, "meta_error", "decode metadata")
                ELSE IF ~isCanon(f.make)
                THEN Report(next, "skipped", f.path, "skipped", "Not a Canon RAW")
                ELSE [next EXCEPT !.jobs = Append(@,
                         [path |-> f.path, time |-> f.time, exp |-> f.exp,
                          fnum |-> f.fnum, iso |-> f.iso, hdrHint |-> f.hdrHint,
                          seq |-> parseSequence(f.path)])]
    /\ UNCHANGED <<fs, call>>

\* run between the loops: the jobs are sorted, anchored triplets detected,
\* the remaining jobs grouped.
SeriesPlan ==
    /\ run.kind = "series"
    /\ run.pc = "collect"
    /\ run.i > Len(run.files)
    /\ \E jobs \in {SortJobs(run.jobs)} :
       \E hdrGroups \in {detectHDRGroups(run.hints, jobs)} :
       \E autoJobs \in {SelectAt(jobs, {k \in 1..Len(jobs) :
                                    jobs[k].path \notin AssignedPaths(hdrGroups)}, 1)} :
       \E groups \in {hdrGroups \o buildGroups(autoJobs)} :
         run' = IF Len(run.jobs) = 0 THEN Fail(run, "no Canon RAW files to process")
                ELSE IF Len(groups) = 0 THEN Fail(run, "no candidate series found")
                ELSE [run EXCEPT !.pc = "group", !.jobs = jobs, !.autoJobs = autoJobs,
                                 !.groups = groups, !.g = 1,
                                 !.seriesIdx = run.opts.startIndex]
    /\ UNCHANGED <<fs, call>>

\* One iteration of the second loop up to the first sidecar: the context
\* check, the length test, the classification, the series ID.
SeriesGroup ==
    /\ run.kind = "series"
    /\ run.pc = "group"
    /\ run.g <= Len(run.groups)
    /\ \E group \in {run.groups[run.g]} :
       \E next \in {[run EXCEPT !.g = @ + 1, !.ids = Append(@, 0)]} :
         run' = IF run.cancelled THEN Fail(run, "context canceled")
                ELSE IF Len(group.jobs) < minSeriesLen
                THEN ReportAll(next, "skipped", group.jobs, 1, "skipped", "Series too short")
                ELSE IF group.forced = "none" /\ ~shouldTagHDR(group.jobs, run.opts.mode)
                THEN ReportAll(next, "skipped", group.jobs, 1, "skipped", "Not detected as HDR")
                ELSE [run EXCEPT !.pc = "job", !.j = 1,
                                 !.seriesID = SeriesID(run.opts.prefix, run.seriesIdx),
                                 !.ids = Append(@, run.seriesIdx),
                                 !.seriesIdx = @ + 1]
    /\ UNCHANGED <<fs, call>>

\* One iteration of the inner loop: the keywords of the group are merged
\* into the sidecar of one of its files.
SeriesTagJob ==
    /\ run.kind = "series"
    /\ run.pc = "job"
    /\ \E io \in IoAnswers :
       \E job \in {run.groups[run.g].jobs[run.j]} :
       \E tags \in {<<seriesTypeTag, run.seriesID>> \o parseExtraTags(run.opts.extraTags)} :
       \E sidecar \in {SidecarPath(job.path)} :
       \E r \in {MergeKeywords(ReadFile(fs, sidecar), tags, run.opts.overwrite, io)} :
       \E next \in {[run EXCEPT !.merged = @ \cup {job.path},
                                !.tagged = Append(@, [path |-> job.path, tags |-> tags]),
                                !.j = IF run.j = Len(run.groups[run.g].jobs) THEN 1 ELSE @ + 1,
                                !.g = IF run.j = Len(run.groups[run.g].jobs) THEN @ + 1 ELSE @,
                                !.pc = IF run.j = Len(run.groups[run.g].jobs)
                                       THEN "group" ELSE "job"]} :
         /\ fs' = WriteFile(fs, sidecar, r)
         /\ call' = [op |-> "MergeKeywords", path |-> sidecar,
                     overwrite |-> run.opts.overwrite, tags |-> tags,
                     coord |-> NoCoord, ts |-> 0, io |-> io,
                     before |-> ReadFile(fs, sidecar), err |-> r.err,
                     wrote |-> r.wrote, written |-> r.written, repeat |-> FALSE]
         /\ run' = IF r.err = "keywords_present"
                   THEN Report(next, "unchanged", job.path, "unchanged",
                               "Series tags already present")
                   ELSE IF r.err # "nil"
                   THEN Report(next, "failed", job.path, "failed", r.err)
                   ELSE IF r.wrote
                   THEN Report(next, "processed", job.path, "processed",
                               seriesTypeTag \o <<" ", "[">> \o run.seriesID \o <<"]">>)
                   ELSE Report(next, "unchanged", job.path, "unchanged", "Sidecar unchanged")

\* run after the second loop: the summary is returned.
SeriesFinish ==
    /\ run.kind = "series"
    /\ run.pc = "group"
    /\ run.g > Len(run.groups)
    /\ run' = [run EXCEPT !.pc = "done"]
    /\ UNCHANGED <<fs, call>>

\* The caller cancels the context of a run in progress.
Cancel ==
    /\ run.kind \in {"series", "geo"}
    /\ run.pc \notin {"done", "error"}
    /\ ~run.cancelled
    /\ run' = [run EXCEPT !.cancelled = TRUE]
    /\ UNCHANGED <<fs, call>>

(***************************************************************************)
(* Series tagging run: the folders and options of the model               *)
(***************************************************************************)
PhotoContent == [k |-> "photo"]

canonMake == <<"C", "a", "n", "o", "n">>
nikonMake == <<"N", "I", "K", "O", "N">>

cr3 == <<".", "c", "r", "3">>
cr3Upper == <<".", "C", "R", "3">>
jpg == <<".", "j", "p", "g">>

\* A file of the input folder as the run sees it: its path, whether its
\* metadata can be decoded, the decoded fields, and what the file holds.
FileOf(path, metaOk, make, time, exp, content) ==
    [path |-> path, metaOk |-> metaOk, make |-> make, time |-> time, exp |-> exp,
     fnum |-> 40, iso |-> 100, hdrHint |-> FALSE, content |-> content]

Canon(stem, ext, time, exp) == FileOf(stem \o ext, TRUE, canonMake, time, exp, PhotoContent)

\* The capture time of the first frame.
BaseTime == 100 * MsPerSecond

\* Capture-time gaps between neighbours, around the two limits.
Gaps == {0, 500, 1100, 1101, 2200, 2201, 3000}

\* File name stems of the second and third frame: the next number, a jump
\* in the numbering, no number at all.
SecondStems == { <<"a", "1", "1">>, <<"b">> }
ThirdStems  == { <<"a", "1", "2">>, <<"a", "1", "5">>, <<"c">> }

DefaultOpts ==
    [input |-> <<"d">>, mode |-> ModeAuto, overwrite |-> FALSE, prefix |-> <<"A", "B", "C">>,
     startIndex |-> 1, extraTags |-> <<>>, progress |-> TRUE]

\* Three bracketed frames whose numbering and spacing vary.
GapFolders ==
    { [files |-> << Canon(<<"a", "1", "0">>, cr3, BaseTime, 250),
                    Canon(s2, cr3, BaseTime + g1, 500),
                    Canon(s3, cr3Upper, BaseTime + g1 + g2, 1000) >>,
       opts |-> DefaultOpts] : g1 \in Gaps, g2 \in Gaps, s2 \in SecondStems, s3 \in ThirdStems }

\* Exposure times of a triplet: bracketed, all equal, not recorded.
Exposures == { <<250, 500, 1000>>, <<500, 500, 500>>, <<0, 0, 0>> }

\* Frames a10, a11, a12 half a second apart.
Triplet(e) ==
    << Canon(<<"a", "1", "0">>, cr3, BaseTime, e[1]),
       Canon(<<"a", "1", "1">>, cr3, BaseTime + 500, e[2]),
       Canon(<<"a", "1", "2">>, cr3Upper, BaseTime + 1000, e[3]) >>

\* A frame taken long before the triplet, and two taken right after a jump
\* in the numbering.
EarlyFrame == Canon(<<"d", "/", "b">>, cr3, BaseTime - 5000, 500)
LateFrames == << Canon(<<"a", "1", "5">>, cr3, BaseTime + 1500, 500),
                 Canon(<<"a", "1", "6">>, cr3, BaseTime + 2000, 1000) >>

\* The merged output a camera writes after an HDR triplet.
MergedOutput(time) == Canon(<<"a", "1", "3">>, jpg, time, 500)

\* The sidecar of a10 as an earlier run left it, or damaged.
Sidecar(content) ==
    FileOf(<<"a", "1", "0">> \o xmpExt, FALSE, <<>>, 0, 0, content)

OldSidecars ==
    { buildKeywordsSidecar(<<seriesTypeTag, SeriesID(<<"A", "B", "C">>, 1)>>),
      BuildSidecar(oldCoord, oldStamp),
      Junk }

\* Files a run leaves alone: a text file, a RAW of another make, a RAW and a
\* merged output that cannot be decoded.
OtherFiles ==
    << FileOf(<<"n", ".", "t", "x", "t">>, FALSE, <<>>, 0, 0, PhotoContent),
       FileOf(<<"k", "2", "0", ".", "n", "e", "f">>, TRUE, nikonMake, BaseTime, 500, PhotoContent),
       FileOf(<<"a", "3", "0">> \o cr3, FALSE, <<>>, 0, 0, PhotoContent),
       FileOf(<<"a", "3", "1">> \o jpg, FALSE, <<>>, 0, 0, PhotoContent) >>

WorkFolders ==
    { <<EarlyFrame>> \o Triplet(e) \o LateFrames : e \in Exposures }
    \cup { Triplet(e) \o <<MergedOutput(BaseTime + d)>> : e \in Exposures, d \in {0, 201} }
    \cup { <<Sidecar(c)>> \o Triplet(<<250, 500, 1000>>) \o OtherFiles : c \in OldSidecars }
    \cup { OtherFiles, <<>> }

WorkScenarios ==
    { [files |-> f, opts |-> [DefaultOpts EXCEPT !.mode = m, !.overwrite = ow]] :
        f \in WorkFolders, m \in {ModeAuto, ModeHDR, ModeFocus}, ow \in BOOLEAN }

\* Option values Validate has to deal with.
OptionScenarios ==
    { [files |-> Triplet(<<250, 500, 1000>>), opts |-> o] :
        o \in { [DefaultOpts EXCEPT !.mode = ""],
                [DefaultOpts EXCEPT !.mode = "bogus"],
                [DefaultOpts EXCEPT !.mode = "HDR"],
                [DefaultOpts EXCEPT !.mode = "Focus"],
                [DefaultOpts EXCEPT !.mode = "AUTO"],
                [DefaultOpts EXCEPT !.input = <<" ">>],
                [DefaultOpts EXCEPT !.prefix = <<>>, !.startIndex = 0],
                [DefaultOpts EXCEPT !.prefix = <<" ", "a", "b", " ">>],
                [DefaultOpts EXCEPT !.startIndex = 99999, !.progress = FALSE,
                                    !.extraTags = <<"x", ",", " ", ",", "y">>] } }

\* Four frames 10..13 that follow each other by their shutter times, give or
\* take x1 and x2, with the merged outputs 13 and (optionally) 14 of the
\* triplets 10..12 and 11..13.
HintFolders ==
    { [files |-> << Canon(<<"a", "1", "0">>, cr3, BaseTime, 500),
                    Canon(<<"a", "1", "1">>, cr3, BaseTime + 500 + x1, 500),
                    Canon(<<"a", "1", "2">>, cr3, BaseTime + 1000 + x1 + x2, 1000),
                    Canon(<<"a", "1", "3">>, cr3, BaseTime + 2000 + x1 + x2, 500) >>
                 \o (IF second
                     THEN <<Canon(<<"a", "1", "4">>, jpg, BaseTime + 500 + x1, 500)>>
                     ELSE <<>>)
                 \o <<Canon(<<"a", "1", "3">>, jpg, BaseTime + d, 500)>>,
       opts |-> DefaultOpts] :
        x1 \in {-55, 55, 56}, x2 \in {0, 56}, d \in {-200, 0, 201}, second \in BOOLEAN }

\* What the camera recorded for a frame: shutter time (ms), f-number (tenths),
\* ISO, maker-note HDR flag. The second list differs from the plain frame in
\* one value each: 0.68 EV and 1 EV by the shutter, no shutter time, no
\* aperture, 1 EV by the sensitivity, 0.97 EV by the aperture, the HDR flag.
PlainFrame == [exp |-> 500, fnum |-> 40, iso |-> 100, hdrHint |-> FALSE]
FrameKinds ==
    { PlainFrame,
      [PlainFrame EXCEPT !.exp = 800],
      [PlainFrame EXCEPT !.exp = 250],
      [PlainFrame EXCEPT !.exp = 0],
      [PlainFrame EXCEPT !.fnum = 0],
      [PlainFrame EXCEPT !.iso = 200],
      [PlainFrame EXCEPT !.fnum = 56],
      [PlainFrame EXCEPT !.hdrHint = TRUE] }

Frame(stem, time, kind) ==
    [path |-> stem \o cr3, metaOk |-> TRUE, make |-> canonMake, time |-> time,
     exp |-> kind.exp, fnum |-> kind.fnum, iso |-> kind.iso, hdrHint |-> kind.hdrHint,
     content |-> PhotoContent]

\* Three frames in a row whose recorded values vary, in each mode.
ClassFolders ==
    { [files |-> << Frame(<<"a", "1", "0">>, BaseTime, k1),
                    Frame(<<"a", "1", "1">>, BaseTime + 500, k2),
                    Frame(<<"a", "1", "2">>, BaseTime + 1000, k3) >>,
       opts |-> [DefaultOpts EXCEPT !.mode = m]] :
        k1 \in {PlainFrame, [PlainFrame EXCEPT !.exp = 0]},
        k2 \in FrameKinds,
        k3 \in {PlainFrame, [PlainFrame EXCEPT !.fnum = 0], [PlainFrame EXCEPT !.exp = 800],
                [PlainFrame EXCEPT !.iso = 0]},
        m \in {ModeAuto, ModeHDR, ModeFocus} }

\* Two triplets with a pair between them, the numbering running on from 99999
\* in some runs.
TwoSeriesFolders ==
    { [files |-> Triplet(e1)
                 \o LateFrames
                 \o << Canon(<<"a", "2", "0">>, cr3, BaseTime + 10000, e2[1]),
                       Canon(<<"a", "2", "1">>, cr3, BaseTime + 10500, e2[2]),
                       Canon(<<"a", "2", "2">>, cr3, BaseTime + 11000, e2[3]) >>,
       opts |-> [DefaultOpts EXCEPT !.startIndex = st]] :
        e1 \in Exposures, e2 \in {<<250, 500, 1000>>, <<500, 500, 500>>}, st \in {1, 99999} }

\* A frame whose name ends in no number, followed by frames 0, 1 and 2 by
\* their shutter times, and one merged output numbered 1, 2 or 3.
UnnumberedFolders ==
    { [files |-> << Canon(<<"x">>, cr3, BaseTime, 500),
                    Canon(<<"a", "0">>, cr3, BaseTime + 500, 500),
                    Canon(<<"a", "1">>, cr3, BaseTime + 1000, 500),
                    Canon(<<"a", "2">>, cr3, BaseTime + 1500, 500),
                    Canon(<<"a", n>>, jpg, BaseTime + d, 500) >>,
       opts |-> DefaultOpts] :
        n \in {"1", "2", "3"}, d \in {0, 500} }

SeriesScenarios ==
    TwoSeriesFolders \cup GapFolders \cup WorkScenarios \cup OptionScenarios \cup HintFolders
    \cup ClassFolders \cup UnnumberedFolders

\* The file system holding the files of a folder.
FolderFiles(files) ==
    [p \in {files[i].path : i \in 1..Len(files)} |->
        files[CHOOSE i \in 1..Len(files) : files[i].path = p].content]

InitSeries ==
    \E sc \in SeriesScenarios :
        /\ run = NewRun("series", sc.files, sc.opts, NoGpx)
        /\ fs = FolderFiles(sc.files)
        /\ call = NoCall

NextSeries ==
    \/ SeriesBegin
    \/ SeriesCollect
    \/ SeriesPlan
    \/ SeriesGroup
    \/ SeriesTagJob
    \/ SeriesFinish
    \/ Cancel

SpecSeries == InitSeries /\ [][NextSeries]_vars

(***************************************************************************)
(* Geotagging run (internal/gpx, internal/app)                             *)
(***************************************************************************)
\* 12 hours, in milliseconds
maxAutoOffset == 12 * 3600 * MsPerSecond

\* sort.Slice of the track points by time (the points of one track have
\* distinct times).
RECURSIVE SortPoints(_)
SortPoints(points) ==
    IF points = <<>> THEN <<>>
    ELSE LET m == CHOOSE i \in 1..Len(points) :
                     \A k \in 1..Len(points) :
                        points[i].time < points[k].time
                        \/ (points[i].time = points[k].time /\ i <= k)
         IN  <<points[m]>> \o SortPoints(SelectAt(points, (1..Len(points)) \ {m}, 1))

\* LoadTrack: [err, points]
LoadTrack(gpx) ==
    IF ~gpx.ok THEN [err |-> "parse gpx", points |-> <<>>]
    ELSE IF Len(gpx.points) = 0
    THEN [err |-> "gpx file contains no track points", points |-> <<>>]
    ELSE [err |-> "nil", points |-> SortPoints(gpx.points)]

\* sort.Search(len(points), !points[i].time.Before(target)), 1-based:
\* the first point not before target, Len + 1 when there is none.
SearchPoint(points, target) ==
    IF \E i \in 1..Len(points) : points[i].time >= target
    THEN CHOOSE i \in 1..Len(points) :
            /\ points[i].time >= target
            /\ \A k \in 1..(i - 1) : points[k].time < target
    ELSE Len(points) + 1

PointCoord(pt) == [lat |-> pt.lat, lon |-> pt.lon, alt |-> pt.alt]

\* A plausible slip: the elapsed fraction is taken from the later sample.
InterpolateFromNext(a, b, elapsed, total) == b + ((elapsed * (a - b)) \div total)

\* prev + progress * (next - prev) with progress = elapsed / total, to the
\* unit of the model.
Interpolate(a, b, elapsed, total) == a + ((elapsed * (b - a)) \div total)

\* A plausible slip: a time on the first or last sample counts as outside.
CoordinateAtOpenBounds(points, target) ==
    IF Len(points) = 0 THEN [err |-> "no track points loaded", coord |-> NoCoord]
    ELSE IF target <= points[1].time \/ target >= points[Len(points)].time
    THEN [err |-> "out_of_bounds", coord |-> NoCoord]
    ELSE [err |-> "nil", coord |-> PointCoord(points[SearchPoint(points, target)])]

\* TrackIndex.CoordinateAt: [err, coord]
CoordinateAt(points, target) ==
    IF Len(points) = 0 THEN [err |-> "no track points loaded", coord |-> NoCoord]
    ELSE IF target < points[1].time \/ target > points[Len(points)].time
    THEN [err |-> "out_of_bounds", coord |-> NoCoord]
    ELSE LET idx == SearchPoint(points, target)
         IN  IF idx = Len(points) + 1
             THEN [err |-> "nil", coord |-> PointCoord(points[Len(points)])]
             ELSE IF points[idx].time = target
             THEN [err |-> "nil", coord |-> PointCoord(points[idx])]
             ELSE IF idx = 1
             THEN [err |-> "nil", coord |-> PointCoord(points[1])]
             ELSE LET prev    == points[idx - 1]
                      next    == points[idx]
                      total   == next.time - prev.time
                      elapsed == target - prev.time
                  IN  IF total <= 0 THEN [err |-> "nil", coord |-> PointCoord(prev)]
                      ELSE [err |-> "nil",
                            coord |-> [lat |-> Interpolate(prev.lat, next.lat, elapsed, total),
                                       lon |-> Interpolate(prev.lon, next.lon, elapsed, total),
                                       alt |-> IF prev.alt # NoAlt /\ next.alt # NoAlt
                                               THEN Interpolate(prev.alt, next.alt, elapsed, total)
                                               ELSE IF prev.alt # NoAlt THEN prev.alt
                                               ELSE next.alt]]

\* A plausible slip: a tie goes to the later sample.
NearestTieLater(points, target) ==
    LET after == {i \in 1..Len(points) : points[i].time >= target}
        idx   == IF after = {} THEN Len(points)
                 ELSE CHOOSE i \in after : \A k \in after : i <= k
        pick  == IF idx = 1 \/ points[idx].time = target THEN idx
                 ELSE IF target - points[idx - 1].time < points[idx].time - target
                 THEN idx - 1 ELSE idx
    IN  [err |-> "nil",
         coord |-> [lat |-> points[pick].lat, lon |-> points[pick].lon,
                    alt |-> points[pick].alt],
         time |-> points[pick].time]

\* TrackIndex.Nearest: [err, coord, time]
Nearest(points, target) ==
    LET At(i) == [err |-> "nil", coord |-> PointCoord(points[i]), time |-> points[i].time]
    IN  IF Len(points) = 0
        THEN [err |-> "no track points loaded", coord |-> NoCoord, time |-> 0]
        ELSE IF target < points[1].time THEN At(1)
        ELSE IF target > points[Len(points)].time THEN At(Len(points))
        ELSE LET idx == SearchPoint(points, target)
             IN  IF idx = Len(points) + 1 THEN At(Len(points))
                 ELSE IF points[idx].time = target \/ idx = 1 THEN At(idx)
                 ELSE IF target - points[idx - 1].time <= points[idx].time - target
                 THEN At(idx - 1)
                 ELSE At(idx)

RECURSIVE InsertInt(_, _)
InsertInt(x, sorted) ==
    IF sorted = <<>> THEN <<x>>
    ELSE IF x < sorted[1] THEN <<x>> \o sorted
    ELSE <<sorted[1]>> \o InsertInt(x, Tail(sorted))
RECURSIVE SortInts(_)
SortInts(xs) ==
    IF xs = <<>> THEN <<>> ELSE InsertInt(xs[Len(xs)], SortInts(SubSeq(xs, 1, Len(xs) - 1)))

\* Go's integer division, which truncates toward zero.
Quot(a, b) == IF a >= 0 THEN a \div b ELSE -((-a) \div b)

\* A plausible slip: the upper middle value is taken for an even count too.
detectOffsetUpperMiddle(points, photos) ==
    LET all   == [i \in 1..Len(photos) |-> Nearest(points, photos[i].time).time - photos[i].time]
        diffs == SortInts(SelectAt(all, {i \in 1..Len(all) : Abs(all[i]) <= maxAutoOffset}, 1))
    IN  IF Len(diffs) = 0 THEN [err |-> "unable to detect offset", offset |-> 0, samples |-> 0]
        ELSE [err |-> "nil", offset |-> diffs[(Len(diffs) \div 2) + 1], samples |-> Len(diffs)]

\* detectOffset: [err, offset, samples]
detectOffset(points, photos) ==
    LET all   == [i \in 1..Len(photos) |-> Nearest(points, photos[i].time).time - photos[i].time]
        diffs == SortInts(SelectAt(all, {i \in 1..Len(all) : Abs(all[i]) <= maxAutoOffset}, 1))
        mid   == Len(diffs) \div 2
    IN  IF Len(diffs) = 0 THEN [err |-> "unable to detect offset", offset |-> 0, samples |-> 0]
        ELSE [err |-> "nil",
              offset |-> IF Len(diffs) % 2 = 0
                         THEN Quot(diffs[mid] + diffs[mid + 1], 2)
                         ELSE diffs[mid + 1],
              samples |-> Len(diffs)]

\* Options.Validate (geotagging): [err, opts]
ValidateGeo(opts) ==
    IF TrimSpace(opts.gpxPath) = <<>> THEN [err |-> "GPX path is required", opts |-> opts]
    ELSE IF TrimSpace(opts.input) = <<>> THEN [err |-> "input path is required", opts |-> opts]
    ELSE [err |-> "nil",
          opts |-> [opts EXCEPT !.gpxPath = TrimSpace(@), !.input = TrimSpace(@)]]

\* The files the progress total counts twice: all but sidecars.
GeoTotal(files) ==
    2 * Cardinality({i \in 1..Len(files) : ~EqualFold(Ext(files[i].path), xmpExt)})

\* advance(step) and reportProgress
Advance(r, step) ==
    IF step <= 0 THEN r
    ELSE LET done == r.completed + step
         IN  IF ~r.opts.progress \/ r.total = 0 THEN [r EXCEPT !.completed = done]
             ELSE LET shown == IF done > r.total THEN r.total ELSE done
                  IN  [r EXCEPT !.completed = shown, !.progress = Append(@, shown)]

GeoReport(r, counter, path, status, message, step) ==
    Advance([r EXCEPT !.counters[counter] = @ + 1,
                      !.results = Append(@, [path |-> path, status |-> status,
                                             message |-> message])], step)

\* run, up to the first loop: options, track, file list, progress total.
GeoBegin ==
    /\ run.kind = "geo"
    /\ run.pc = "start"
    /\ \E v \in {ValidateGeo(run.opts)} :
       \E t \in {LoadTrack(run.gpx)} :
         run' = IF v.err # "nil" THEN Fail(run, v.err)
                ELSE IF t.err # "nil" THEN Fail(run, t.err)
                ELSE IF Len(run.files) = 0 THEN Fail(run, "no files found to process")
                ELSE [run EXCEPT !.opts = v.opts,
                                 !.track = t.points,
                                 !.pc = "collect",
                                 !.total = GeoTotal(run.files),
                                 !.progress = IF v.opts.progress /\ GeoTotal(run.files) # 0
                                              THEN <<0>> ELSE <<>>]
    /\ UNCHANGED <<fs, call>>

\* One iteration of the first loop: the context check, then one file.
GeoCollect ==
    /\ run.kind = "geo"
    /\ run.pc = "collect"
    /\ run.i <= Len(run.files)
    /\ \E f \in {run.files[run.i]} :
       \E next \in {[run EXCEPT !.i = @ + 1]} :
         run' = IF run.cancelled THEN Fail(run, "context canceled")
                ELSE IF ToLower(Ext(f.path)) = xmpExt THEN next
                ELSE IF ~SupportedRaw(f.path)
                THEN GeoReport(next, "skipped", f.path, "skipped", "", 2)
                ELSE IF ~f.metaOk
                THEN GeoReport(next, "meta_error", f.path, "meta_error", "decode metadata", 2)
                ELSE Advance([next EXCEPT !.jobs = Append(@, [path |-> f.path,
                                                              time |-> f.time])], 1)
    /\ UNCHANGED <<fs, call>>

\* A plausible slip: the detected offset replaces a manual one.
GeoOffsetAutoWins ==
    /\ run.kind = "geo"
    /\ run.pc = "collect"
    /\ run.i > Len(run.files)
    /\ \E d \in {IF Len(run.jobs) = 0 THEN [err |-> "none", offset |-> 0, samples |-> 0]
                 ELSE detectOffset(run.track, run.jobs)} :
         run' = IF Len(run.jobs) = 0 THEN Fail(run, "no RAW files to process")
                ELSE [run EXCEPT !.pc = "job", !.j = 1,
                                 !.offset = IF run.opts.autoOffset /\ d.err = "nil"
                                            THEN d.offset
                                            ELSE run.opts.timeOffset]
    /\ UNCHANGED <<fs, call>>

\* run between the loops: the effective clock offset.
GeoOffset ==
    /\ run.kind = "geo"
    /\ run.pc = "collect"
    /\ run.i > Len(run.files)
    /\ \E d \in {IF Len(run.jobs) = 0 THEN [err |-> "none", offset |-> 0, samples |-> 0]
                 ELSE detectOffset(run.track, run.jobs)} :
         run' = IF Len(run.jobs) = 0 THEN Fail(run, "no RAW files to process")
                ELSE [run EXCEPT !.pc = "job", !.j = 1,
                                 !.offset = IF run.opts.timeOffset = 0 /\ run.opts.autoOffset
                                                /\ d.err = "nil"
                                            THEN d.offset
                                            ELSE run.opts.timeOffset]
    /\ UNCHANGED <<fs, call>>

\* One iteration of the second loop that ends before the sidecar: the
\* context is cancelled, or the capture time is outside the track.
GeoJobNoMerge ==
    /\ run.kind = "geo"
    /\ run.pc = "job"
    /\ run.j <= Len(run.jobs)
    /\ \E job \in {run.jobs[run.j]} :
       \E c \in {CoordinateAt(run.track, run.jobs[run.j].time + run.offset)} :
         /\ run.cancelled \/ c.err # "nil"
         /\ run' = IF run.cancelled THEN Fail(run, "context canceled")
                   ELSE IF c.err = "out_of_bounds"
                   THEN GeoReport([run EXCEPT !.j = @ + 1], "out_of_track", job.path,
                                  "out_of_track", "timestamp outside GPX track bounds", 1)
                   ELSE GeoReport([run EXCEPT !.j = @ + 1], "failed", job.path,
                                  "failed", c.err, 1)
    /\ UNCHANGED <<fs, call>>

\* A plausible slip: the sidecar is written without looking at the context.
GeoJobMergeUnchecked ==
    /\ run.kind = "geo"
    /\ run.pc = "job"
    /\ run.j <= Len(run.jobs)
    /\ \E io \in IoAnswers :
       \E job \in {run.jobs[run.j]} :
       \E capture \in {run.jobs[run.j].time + run.offset} :
       \E c \in {CoordinateAt(run.track, capture)} :
       \E sidecar \in {SidecarPath(job.path)} :
         /\ c.err = "nil"
         /\ \E r \in {MergeAndWrite(ReadFile(fs, sidecar), c.coord, capture,
                                    run.opts.overwrite, io)} :
            \E next \in {[run EXCEPT !.j = @ + 1, !.merged = @ \cup {job.path}]} :
              /\ fs' = WriteFile(fs, sidecar, r)
              /\ call' = [op |-> "MergeAndWrite", path |-> sidecar,
                          overwrite |-> run.opts.overwrite, tags |-> <<>>,
                          coord |-> c.coord, ts |-> capture, io |-> io,
                          before |-> ReadFile(fs, sidecar), err |-> r.err,
                          wrote |-> r.wrote, written |-> r.written, repeat |-> FALSE]
              /\ run' = IF r.err = "gps_present"
                        THEN GeoReport(next, "unchanged", job.path, "unchanged",
                                       "GPS already present", 1)
                        ELSE IF r.err # "nil"
                        THEN GeoReport(next, "failed", job.path, "failed", r.err, 1)
                        ELSE IF r.wrote
                        THEN GeoReport(next, "processed", job.path, "processed", sidecar, 1)
                        ELSE GeoReport(next, "unchanged", job.path, "unchanged",
                                       "Sidecar existed", 1)

\* One iteration of the second loop that reaches the sidecar: the GPS fields
\* of the interpolated position are merged into it.
GeoJobMerge ==
    /\ run.kind = "geo"
    /\ run.pc = "job"
    /\ run.j <= Len(run.jobs)
    /\ ~run.cancelled
    /\ \E io \in IoAnswers :
       \E job \in {run.jobs[run.j]} :
       \E capture \in {run.jobs[run.j].time + run.offset} :
       \E c \in {CoordinateAt(run.track, capture)} :
       \E sidecar \in {SidecarPath(job.path)} :
         /\ c.err = "nil"
         /\ \E r \in {MergeAndWrite(ReadFile(fs, sidecar), c.coord, capture,
                                    run.opts.overwrite, io)} :
            \E next \in {[run EXCEPT !.j = @ + 1, !.merged = @ \cup {job.path}]} :
              /\ fs' = WriteFile(fs, sidecar, r)
              /\ call' = [op |-> "MergeAndWrite", path |-> sidecar,
                          overwrite |-> run.opts.overwrite, tags |-> <<>>,
                          coord |-> c.coord, ts |-> capture, io |-> io,
                          before |-> ReadFile(fs, sidecar), err |-> r.err,
                          wrote |-> r.wrote, written |-> r.written, repeat |-> FALSE]
              /\ run' = IF r.err = "gps_present"
                        THEN GeoReport(next, "unchanged", job.path, "unchanged",
                                       "GPS already present", 1)
                        ELSE IF r.err # "nil"
                        THEN GeoReport(next, "failed", job.path, "failed", r.err, 1)
                        ELSE IF r.wrote
                        THEN GeoReport(next, "processed", job.path, "processed", sidecar, 1)
                        ELSE GeoReport(next, "unchanged", job.path, "unchanged",
                                       "Sidecar existed", 1)

\* run after the second loop: the summary is returned.
GeoFinish ==
    /\ run.kind = "geo"
    /\ run.pc = "job"
    /\ run.j > Len(run.jobs)
    /\ run' = [run EXCEPT !.pc = "done"]
    /\ UNCHANGED <<fs, call>>

(***************************************************************************)
(* Track lookups and offset estimate on their own                          *)
(***************************************************************************)
\* Samples at three times, with and without elevation.
SampleTimes == {BaseTime, BaseTime + 10000, BaseTime + 20000}
SamplePlaces ==
    { [lat |-> 60610, lon |-> 10799, alt |-> 500],
      [lat |-> 61210, lon |-> 10199, alt |-> 700],
      [lat |-> -1200, lon |-> -30,   alt |-> NoAlt] }
Samples ==
    { [time |-> t, lat |-> c.lat, lon |-> c.lon, alt |-> c.alt] :
        t \in SampleTimes, c \in SamplePlaces }

\* GPX files: up to three samples in any order, or not parsable.
GpxFiles ==
    { [ok |-> TRUE, points |-> <<>>], [ok |-> FALSE, points |-> <<>>] }
    \cup { [ok |-> TRUE, points |-> <<a>>] : a \in Samples }
    \cup { [ok |-> TRUE, points |-> <<a, b>>] : a \in Samples, b \in Samples }
    \cup { [ok |-> TRUE, points |-> <<a, b, c>>] : a \in Samples, b \in Samples, c \in Samples }

\* Times asked for: around the ends, the samples and the midpoints.
QueryTimes ==
    { BaseTime + d : d \in {-1, 0, 1, 4999, 5000, 5001, 10000, 15000, 20000, 20001} }

\* Differences (track time minus camera time) of up to four photos taken at
\* the first sample: equal ones, mixed ones, ones around the 12 hour window.
OffsetLists ==
    { <<>>, <<7000>>, <<7000, 7000>>, <<7000, 7000, 7000>>, <<7000, 7000, 7000, 7000>>,
      <<7000, -3000>>, <<-7001, 0>>, <<9000, -3000, 7000>>, <<5000, 1000, 7000, -3000>>,
      <<maxAutoOffset>>, <<maxAutoOffset + 1>>, <<-maxAutoOffset - 1, -maxAutoOffset>>,
      <<7000, maxAutoOffset + 1>>, <<7000, -maxAutoOffset - 1, 7000>>,
      <<-maxAutoOffset - 1, 1000, maxAutoOffset + 1, 3000>> }

InitTrack ==
    \E g \in GpxFiles :
        /\ run = [kind |-> "track", pc |-> "start", gpx |-> g, err |-> "nil", track |-> <<>>,
                  op |-> "none", t |-> 0, photos |-> <<>>, res |-> [err |-> "nil"]]
        /\ fs = <<>>
        /\ call = NoCall

\* gpx.LoadTrack on the file.
TrackLoad ==
    /\ run.kind = "track"
    /\ run.pc = "start"
    /\ \E r \in {LoadTrack(run.gpx)} :
         run' = IF r.err # "nil" THEN [run EXCEPT !.pc = "error", !.err = r.err]
                ELSE [run EXCEPT !.pc = "loaded", !.track = r.points]
    /\ UNCHANGED <<fs, call>>

\* One call of TrackIndex.CoordinateAt.
TrackCoordinateAt ==
    /\ run.kind = "track"
    /\ run.pc = "loaded"
    /\ \E t \in QueryTimes :
         run' = [run EXCEPT !.op = "CoordinateAt", !.t = t, !.photos = <<>>,
                            !.res = CoordinateAt(run.track, t)]
    /\ UNCHANGED <<fs, call>>

\* One call of TrackIndex.Nearest.
TrackNearest ==
    /\ run.kind = "track"
    /\ run.pc = "loaded"
    /\ \E t \in QueryTimes :
         run' = [run EXCEPT !.op = "Nearest", !.t = t, !.photos = <<>>,
                            !.res = Nearest(run.track, t)]
    /\ UNCHANGED <<fs, call>>

\* One call of detectOffset, for photos whose camera times lie the given
\* differences before the first sample.
TrackDetectOffset ==
    /\ run.kind = "track"
    /\ run.pc = "loaded"
    /\ \E diffs \in OffsetLists :
       \E photos \in {[i \in 1..Len(diffs) |->
                         [path |-> <<"p">> \o IntToStr(i) \o <<".", "a", "r", "w">>,
                          time |-> run.track[1].time - diffs[i]]]} :
         run' = [run EXCEPT !.op = "detectOffset", !.t = 0, !.photos = photos,
                            !.res = detectOffset(run.track, photos)]
    /\ UNCHANGED <<fs, call>>

NextTrack ==
    \/ TrackLoad
    \/ TrackCoordinateAt
    \/ TrackNearest
    \/ TrackDetectOffset

SpecTrack == InitTrack /\ [][NextTrack]_vars

(***************************************************************************)
(* Sidecar path derivation on its own                                      *)
(***************************************************************************)
PathDirs == { <<>>, <<"d", "/">>, <<"d", ".", "e", "/">>, <<"/", "x", "/", "y", ".", "z", "/">> }
PathStems == { <<>>, <<"a">>, <<"a", ".", "b">>, <<"I", "M", "G", "_", "1">> }
PathExts ==
    { <<>>, <<".">>, <<".", "c", "r", "3">>, <<".", "C", "R", "3">>,
      xmpExt, <<".", "X", "M", "P">>, <<".", "X", "m", "p">>,
      <<".", "c", "r", "3">> \o xmpExt, <<".", "c", "r", "3", ".", "X", "M", "P">>,
      xmpExt \o xmpExt, xmpExt \o <<".", "c", "r", "3">>,
      <<".", "x", "m", "p", "x">> }
PathInputs == { d \o st \o e : d \in PathDirs, st \in PathStems, e \in PathExts }

InitPath ==
    \E input \in PathInputs :
        /\ run = [kind |-> "path", pc |-> "start", input |-> input, res |-> <<>>]
        /\ fs = <<>>
        /\ call = NoCall

\* One call of xmp.SidecarPath.
PathSidecar ==
    /\ run.kind = "path"
    /\ run.pc = "start"
    /\ run' = [run EXCEPT !.pc = "done", !.res = SidecarPath(run.input)]
    /\ UNCHANGED <<fs, call>>

NextPath == PathSidecar

SpecPath == InitPath /\ [][NextPath]_vars

(***************************************************************************)
(* GUI backend (gui/backend.go): calls of the frontend, each on a          *)
(* goroutine of its own                                                    *)
(*   mu       the goroutine that holds Backend.mu, or "free"               *)
(*   running  Backend.running                                              *)
(*   cancel   Backend.cancel: 0 for nil, else the number of the context it *)
(*            cancels                                                       *)
(*   logBuf   Backend.logBuf: 0 for nil, else the number of the run that   *)
(*            created the buffer                                           *)
(*   done     the contexts cancelled so far                                *)
(*   starts   the Process calls that got past the running test             *)
(*   th       for each goroutine its call, its position in it, the context *)
(*            or buffer it works with and what it returned                 *)
(***************************************************************************)
MaxStarts == 2

Goroutines == {"g1", "g2", "g3"}
GuiOps == {"Process", "Cancel", "GetLogs", "SaveLog", "ClearLogs"}
LogOps == {"GetLogs", "SaveLog", "ClearLogs"}

IdleThread == [op |-> "none", pc |-> "idle", ctx |-> 0, ret |-> "none"]

InitGui ==
    /\ run = [kind |-> "gui", pc |-> "gui", mu |-> "free", running |-> FALSE, cancel |-> 0,
              logBuf |-> 0, done |-> {}, starts |-> 0,
              th |-> [t \in Goroutines |-> IdleThread]]
    /\ fs = <<>>
    /\ call = NoCall

\* The frontend calls a bound method.
GuiCall(t) ==
    /\ run.kind = "gui"
    /\ run.th[t].pc = "idle"
    /\ \E op \in GuiOps :
         /\ op = "Process" => run.starts < MaxStarts
         /\ run' = [run EXCEPT !.th[t] = [IdleThread EXCEPT !.op = op, !.pc = "enter"]]
    /\ UNCHANGED <<fs, call>>

\* A plausible slip: Process does not look at running.
GuiProcessStartUnchecked(t) ==
    /\ run.kind = "gui"
    /\ run.th[t].op = "Process"
    /\ run.th[t].pc = "enter"
    /\ run.mu = "free"
    /\ run' = [run EXCEPT !.running = TRUE, !.cancel = run.starts + 1,
                          !.starts = @ + 1,
                          !.th[t].ctx = run.starts + 1, !.th[t].pc = "parse"]
    /\ UNCHANGED <<fs, call>>

\* Process, lines 193-201, under the mutex: the running test, the context,
\* the two fields.
GuiProcessStart(t) ==
    /\ run.kind = "gui"
    /\ run.th[t].op = "Process"
    /\ run.th[t].pc = "enter"
    /\ run.mu = "free"
    /\ run' = IF run.running
              THEN [run EXCEPT !.th[t].pc = "ret", !.th[t].ret = "already running"]
              ELSE [run EXCEPT !.running = TRUE, !.cancel = run.starts + 1,
                               !.starts = @ + 1,
                               !.th[t].ctx = run.starts + 1, !.th[t].pc = "parse"]
    /\ UNCHANGED <<fs, call>>

\* Process, lines 213-216: parseOffset accepts the offset or not.
GuiProcessParse(t) ==
    /\ run.kind = "gui"
    /\ run.th[t].op = "Process"
    /\ run.th[t].pc = "parse"
    /\ \E ok \in BOOLEAN :
         run' = IF ok THEN [run EXCEPT !.th[t].pc = "attach"]
                ELSE [run EXCEPT !.th[t].pc = "defer", !.th[t].ret = "invalid time offset"]
    /\ UNCHANGED <<fs, call>>

\* Process, lines 219-222: a new buffer becomes Backend.logBuf, under the
\* mutex.
GuiProcessAttach(t) ==
    /\ run.kind = "gui"
    /\ run.th[t].op = "Process"
    /\ run.th[t].pc = "attach"
    /\ run.mu = "free"
    /\ run' = [run EXCEPT !.logBuf = run.th[t].ctx, !.th[t].pc = "run"]
    /\ UNCHANGED <<fs, call>>

\* app.RunWithLogger: the run's logger starts a write into the buffer it was
\* given; it takes the logger's own lock, not Backend.mu.
GuiLogWriteBegin(t) ==
    /\ run.kind = "gui"
    /\ run.th[t].op = "Process"
    /\ run.th[t].pc = "run"
    /\ run' = [run EXCEPT !.th[t].pc = "writing"]
    /\ UNCHANGED <<fs, call>>

\* The write into the buffer ends.
GuiLogWriteEnd(t) ==
    /\ run.kind = "gui"
    /\ run.th[t].op = "Process"
    /\ run.th[t].pc = "writing"
    /\ run' = [run EXCEPT !.th[t].pc = "run"]
    /\ UNCHANGED <<fs, call>>

\* app.RunWithLogger returns: a summary, an error, or the context's error
\* when the context was cancelled and a check saw it.
GuiProcessFinish(t) ==
    /\ run.kind = "gui"
    /\ run.th[t].op = "Process"
    /\ run.th[t].pc = "run"
    /\ \E r \in {"summary", "error"}
               \cup (IF run.th[t].ctx \in run.done THEN {"context canceled"} ELSE {}) :
         run' = [run EXCEPT !.th[t].pc = "defer", !.th[t].ret = r]
    /\ UNCHANGED <<fs, call>>

\* Process, the deferred function, lines 203-211, under the mutex.
GuiProcessDefer(t) ==
    /\ run.kind = "gui"
    /\ run.th[t].op = "Process"
    /\ run.th[t].pc = "defer"
    /\ run.mu = "free"
    /\ run' = [run EXCEPT !.done = IF run.cancel # 0 THEN @ \cup {run.cancel} ELSE @,
                          !.running = FALSE, !.cancel = 0,
                          !.th[t].pc = "ret"]
    /\ UNCHANGED <<fs, call>>

\* Cancel, lines 48-50: the cancel function is read under the mutex.
GuiCancelRead(t) ==
    /\ run.kind = "gui"
    /\ run.th[t].op = "Cancel"
    /\ run.th[t].pc = "enter"
    /\ run.mu = "free"
    /\ run' = [run EXCEPT !.th[t].ctx = run.cancel, !.th[t].pc = "decide"]
    /\ UNCHANGED <<fs, call>>

\* Cancel, lines 52-56: nothing to cancel, or the function is called.
GuiCancelCall(t) ==
    /\ run.kind = "gui"
    /\ run.th[t].op = "Cancel"
    /\ run.th[t].pc = "decide"
    /\ run' = IF run.th[t].ctx = 0
              THEN [run EXCEPT !.th[t].pc = "ret", !.th[t].ret = "nothing to cancel"]
              ELSE [run EXCEPT !.done = @ \cup {run.th[t].ctx},
                               !.th[t].pc = "ret", !.th[t].ret = "nil"]
    /\ UNCHANGED <<fs, call>>

\* ClearLogs and GetLogs (also as called by SaveLog) take the mutex; with no
\* buffer they return at once, else they go into the buffer.
GuiLogLock(t) ==
    /\ run.kind = "gui"
    /\ run.th[t].op \in LogOps
    /\ run.th[t].pc = "enter"
    /\ run.mu = "free"
    /\ run' = IF run.logBuf = 0
              THEN [run EXCEPT !.th[t].pc = "ret", !.th[t].ret = "empty"]
              ELSE [run EXCEPT !.mu = t, !.th[t].ctx = run.logBuf, !.th[t].pc = "inbuf"]
    /\ UNCHANGED <<fs, call>>

\* Buffer.Reset or Buffer.String ends and the mutex is released. What a
\* call gets that went on while the logger wrote into the same buffer is
\* not defined.
GuiLogUnlock(t) ==
    /\ run.kind = "gui"
    /\ run.th[t].op \in LogOps
    /\ run.th[t].pc = "inbuf"
    /\ run.mu = t
    /\ \E r \in {"log"}
               \cup (IF \E w \in Goroutines : /\ run.th[w].pc = "writing"
                                             /\ run.th[w].ctx = run.th[t].ctx
                     THEN {"torn"} ELSE {}) :
         run' = [run EXCEPT !.mu = "free", !.th[t].pc = "ret", !.th[t].ret = r]
    /\ UNCHANGED <<fs, call>>

\* The call returns to the frontend.
GuiReturn(t) ==
    /\ run.kind = "gui"
    /\ run.th[t].pc = "ret"
    /\ run' = [run EXCEPT !.th[t] = IdleThread]
    /\ UNCHANGED <<fs, call>>

NextGui ==
    \E t \in Goroutines :
        \/ GuiCall(t)
        \/ GuiProcessStart(t)
        \/ GuiProcessParse(t)
        \/ GuiProcessAttach(t)
        \/ GuiLogWriteBegin(t)
        \/ GuiLogWriteEnd(t)
        \/ GuiProcessFinish(t)
        \/ GuiProcessDefer(t)
        \/ GuiCancelRead(t)
        \/ GuiCancelCall(t)
        \/ GuiLogLock(t)
        \/ GuiLogUnlock(t)
        \/ GuiReturn(t)

SpecGui == InitGui /\ [][NextGui]_vars

(***************************************************************************)
(* Folders, tracks and options of the geotagging runs                      *)
(***************************************************************************)
arw      == <<".", "a", "r", "w">>
nefUpper == <<".", "N", "E", "F">>
dng      == <<".", "d", "n", "g">>
txt      == <<".", "t", "x", "t">>
gpxPathA == <<"t", ".", "g", "p", "x">>

Photo(stem, ext, time) == FileOf(stem \o ext, TRUE, nikonMake, time, 500, PhotoContent)

\* Three samples ten seconds apart, as the file lists them (not in time
\* order); the middle one has no elevation.
TrackPoints ==
    << [time |-> BaseTime + 20000, lat |-> 61210, lon |-> 10199, alt |-> 700],
       [time |-> BaseTime,         lat |-> 60610, lon |-> 10799, alt |-> 500],
       [time |-> BaseTime + 10000, lat |-> 60810, lon |-> 10599, alt |-> NoAlt] >>

Tracks ==
    { [ok |-> TRUE,  points |-> TrackPoints],
      [ok |-> TRUE,  points |-> <<>>],
      [ok |-> FALSE, points |-> <<>>] }

\* Camera clocks: right, twenty seconds behind, more than twelve hours ahead.
ClockSkews == {0, -20000, 50000000}

\* Three photos: between two samples, on a sample, five seconds before the track.
GeoPhotos(skew) ==
    << Photo(<<"p", "1">>, arw, BaseTime + 5000 + skew),
       Photo(<<"p", "2">>, nefUpper, BaseTime + 10000 + skew),
       Photo(<<"p", "3">>, dng, BaseTime - 5000 + skew) >>

GeoSidecar(content) == FileOf(<<"p", "1">> \o xmpExt, FALSE, <<>>, 0, 0, content)

GeoSidecars ==
    { BuildSidecar(oldCoord, oldStamp),
      buildKeywordsSidecar(<<seriesTypeTag>>),
      Junk }

GeoFolders ==
    { GeoPhotos(k) : k \in ClockSkews }
    \cup { <<GeoSidecar(c)>> \o GeoPhotos(0) : c \in GeoSidecars }
    \cup { << FileOf(<<"n">> \o txt, FALSE, <<>>, 0, 0, PhotoContent),
              FileOf(<<"p", "4">> \o arw, FALSE, <<>>, 0, 0, PhotoContent),
              Photo(<<"p", "2">>, nefUpper, BaseTime + 10000) >>,
           << FileOf(<<"n">> \o txt, FALSE, <<>>, 0, 0, PhotoContent),
              GeoSidecar(Junk) >>,
           <<>> }

GeoOpts ==
    [gpxPath |-> gpxPathA, input |-> <<"d">>, timeOffset |-> 0, autoOffset |-> TRUE,
     overwrite |-> FALSE, progress |-> TRUE]

GeoScenarios ==
    { [files |-> f, gpx |-> [ok |-> TRUE, points |-> TrackPoints],
       opts |-> [GeoOpts EXCEPT !.timeOffset = off, !.autoOffset = au, !.overwrite = ow]] :
        f \in GeoFolders, off \in {0, 20000}, au \in BOOLEAN, ow \in BOOLEAN }
    \cup { [files |-> GeoPhotos(0), gpx |-> g, opts |-> GeoOpts] : g \in Tracks }
    \cup { [files |-> GeoPhotos(0), gpx |-> [ok |-> TRUE, points |-> TrackPoints], opts |-> o] :
            o \in { [GeoOpts EXCEPT !.gpxPath = <<" ">>],
                    [GeoOpts EXCEPT !.input = <<>>],
                    [GeoOpts EXCEPT !.progress = FALSE] } }

InitGeo ==
    \E sc \in GeoScenarios :
        /\ run = NewRun("geo", sc.files, sc.opts, sc.gpx)
        /\ fs = FolderFiles(sc.files)
        /\ call = NoCall

NextGeo ==
    \/ GeoBegin
    \/ GeoCollect
    \/ GeoOffset
    \/ GeoJobNoMerge
    \/ GeoJobMerge
    \/ GeoFinish
    \/ Cancel

SpecGeo == InitGeo /\ [][NextGeo]_vars

\* Both kinds of run.
InitRuns == InitSeries \/ InitGeo

NextRuns ==
    \/ SeriesBegin
    \/ SeriesCollect
    \/ SeriesPlan
    \/ SeriesGroup
    \/ SeriesTagJob
    \/ SeriesFinish
    \/ GeoBegin
    \/ GeoCollect
    \/ GeoOffset
    \/ GeoJobNoMerge
    \/ GeoJobMerge
    \/ GeoFinish
    \/ Cancel

SpecRuns == InitRuns /\ [][NextRuns]_vars

(***************************************************************************)
(* Properties of the merge engine                                          *)
(***************************************************************************)
\* The GPS fields a document holds, as attributes or as elements.
GpsFieldsOf(c) ==
    ({a.n : a \in Range(AllAttrs(c))} \cap GpsNameSet)
    \cup {nd.n : nd \in {x \in Range(AllNodes(c)) : x.k = "gps"}}

PositionalFields ==
    {"GPSLatitude", "GPSLongitude", "GPSDateStamp", "GPSTimeStamp", "GPSVersionID"}

AllOrNothing(c) ==
    \/ PositionalFields \subseteq GpsFieldsOf(c)
    \/ PositionalFields \cap GpsFieldsOf(c) = {}

\* C2: MergeAndWrite with overwrite=false on a sidecar that holds GPS fields
\* returns ErrGPSAlreadyPresent, performs no write and leaves the file as it
\* was.
C2_RefusesWhenGpsPresent ==
    (/\ call.op = "MergeAndWrite"
     /\ ~call.overwrite
     /\ call.io = "ok"
     /\ GpsFieldsOf(call.before) # {})
    => (/\ call.err = "gps_present"
        /\ ~call.written
        /\ ReadFile(fs, call.path) = call.before)

\* What a document holds besides GPS attributes and elements; with dropNs the
\* xmlns:exif declaration of the first description is left out as well.
NonGpsPart(c, dropNs) ==
    [fmt |-> c.fmt, gen |-> c.gen,
     pktOther |-> SelectAt(c.pktOther, {i \in 1..Len(c.pktOther) : c.pktOther[i].k # "gps"}, 1),
     rdfOther |-> SelectAt(c.rdfOther, {i \in 1..Len(c.rdfOther) : c.rdfOther[i].k # "gps"}, 1),
     descs |-> [d \in 1..Len(c.descs) |->
        [sc |-> c.descs[d].sc,
         attrs |-> SelectAt(c.descs[d].attrs,
                            {i \in 1..Len(c.descs[d].attrs) :
                                /\ c.descs[d].attrs[i].n \notin GpsNameSet
                                /\ ~(dropNs /\ d = 1
                                     /\ c.descs[d].attrs[i].n = exifNamespaceAttr)}, 1),
         inner |-> SelectAt(c.descs[d].inner,
                            {i \in 1..Len(c.descs[d].inner) :
                                c.descs[d].inner[i].k # "gps"}, 1)]]]

\* C3: a GPS merge into an existing document changes nothing but GPS: apart
\* from GPS attributes and elements, and an xmlns:exif declaration added to
\* the first rdf:Description when it had none, the output is the input, and
\* the first rdf:Description carries every new GPS attribute.
C3_GpsMergeKeepsOtherFields ==
    (call.op = "MergeAndWrite" /\ call.wrote /\ call.before.k = "doc")
    => LET hadNs == \E a \in Range(call.before.descs[1].attrs) : a.n = exifNamespaceAttr
       IN  /\ NonGpsPart(ReadFile(fs, call.path), ~hadNs) = NonGpsPart(call.before, FALSE)
           /\ \A a \in Range(BuildAttrs(call.coord, call.ts)) :
                \E b \in Range(ReadFile(fs, call.path).descs[1].attrs) : b.n = a.n /\ b.v = a.v

\* A GPS merge rewrote a document that held an unrelated element, an
\* unrelated attribute on a line of its own and GPS fields from before.
C3_Witness ==
    /\ call.op = "MergeAndWrite"
    /\ call.wrote
    /\ call.before.k = "doc"
    /\ labelNode \in Range(AllNodes(call.before))
    /\ ReadFile(fs, call.path) # call.before
    /\ \/ GpsFieldsOf(call.before) # {}
       \/ ratingAttr("nl") \in Range(AllAttrs(call.before))

\* What a document holds outside its dc:subject blocks: the children of
\* xmpmeta and rdf:RDF, and of every description the attributes (but the
\* xmlns:dc declaration) and the inner XML.
OutsideSubject(c) ==
    [pktOther |-> c.pktOther, rdfOther |-> c.rdfOther,
     descs |-> [d \in 1..Len(c.descs) |->
        [attrs |-> SelectAt([i \in 1..Len(c.descs[d].attrs) |->
                                <<c.descs[d].attrs[i].n, c.descs[d].attrs[i].v>>],
                            {i \in 1..Len(c.descs[d].attrs) :
                                c.descs[d].attrs[i].n # dcNamespaceAttr}, 1),
         inner |-> SelectAt(c.descs[d].inner,
                            {i \in 1..Len(c.descs[d].inner) :
                                c.descs[d].inner[i].k # "subj"}, 1)]]]

\* C4: a keyword merge that rewrites an existing sidecar keeps everything
\* outside the dc:subject block: children of xmpmeta and rdf:RDF, attributes
\* and inner XML of every description.
C4_KeywordMergeKeepsOtherContent ==
    (call.op = "MergeKeywords" /\ call.wrote /\ call.before.k = "doc")
    => OutsideSubject(ReadFile(fs, call.path)) = OutsideSubject(call.before)

\* C5: a MergeKeywords call with overwrite=false that repeats the tags of a
\* call that succeeded just before it returns ErrKeywordsAlreadyPresent and
\* leaves the file as it was.
C5_KeywordMergeIdempotent ==
    (/\ call.op = "MergeKeywords"
     /\ call.repeat
     /\ ~call.overwrite
     /\ call.io = "ok")
    => (/\ call.err = "keywords_present"
        /\ ~call.written
        /\ ReadFile(fs, call.path) = call.before)

\* The second of two equal calls was refused, on a sidecar the first call
\* had merged into an existing document.
C5_Witness ==
    /\ call.op = "MergeKeywords"
    /\ call.repeat
    /\ ~call.overwrite
    /\ call.io = "ok"
    /\ call.err = "keywords_present"
    /\ call.before.k = "doc"
    /\ call.before.fmt = "go"

\* The keywords of the description the merge works on.
SelectedKeywords(c) ==
    IF c.k # "doc" THEN <<>>
    ELSE extractKeywords(c.descs[selectDescription(c.descs)].inner)

SelectedSubjectBlocks(c) ==
    LET inner == c.descs[selectDescription(c.descs)].inner
    IN  Cardinality({i \in 1..Len(inner) : inner[i].k = "subj"})

FirstSpelling(ss, lower) ==
    ss[CHOOSE i \in 1..Len(ss) :
          /\ ToLower(ss[i]) = lower
          /\ \A j \in 1..(i - 1) : ToLower(ss[j]) # lower]

\* C6: after a keyword merge that changes the document the keyword list is
\* sorted, has no two entries equal case-insensitively, is the union of the
\* existing and the requested keywords, keeps the first-seen casing of
\* keywords no requested tag matches, carries the requested casing of a
\* matching keyword when overwrite=true and the existing one when
\* overwrite=false, and is the only keyword block of the description.
C6_MergedKeywordList ==
    (call.op = "MergeKeywords" /\ call.wrote)
    => LET old == SelectedKeywords(call.before)
           req == [i \in 1..Len(call.tags) |-> TrimSpace(call.tags[i])]
           new == SelectedKeywords(ReadFile(fs, call.path))
           wanted == {ToLower(req[i]) : i \in {j \in 1..Len(req) : req[j] # <<>>}}
       IN  /\ \A i \in 1..(Len(new) - 1) : ~StrLess(new[i + 1], new[i])
           /\ \A i, j \in 1..Len(new) : i # j => ToLower(new[i]) # ToLower(new[j])
           /\ LowerSet(new) = LowerSet(old) \cup wanted
           /\ \A l \in LowerSet(old) \ wanted : FirstSpelling(old, l) \in Range(new)
           /\ \A l \in wanted :
                IF call.overwrite \/ l \notin LowerSet(old)
                THEN FirstSpelling(req, l) \in Range(new)
                ELSE FirstSpelling(old, l) \in Range(new)
           /\ SelectedSubjectBlocks(ReadFile(fs, call.path)) = 1

\* C7: a MergeAndWrite call on a sidecar that is absent or holds either all
\* or none of latitude, longitude, date stamp, time stamp and version ID
\* leaves a sidecar that holds either all or none of them.
C7_GpsAllOrNothing ==
    (call.op = "MergeAndWrite" /\ AllOrNothing(call.before))
    => AllOrNothing(ReadFile(fs, call.path))

\* A GPS merge rewrote a document that held GPS fields before, and the
\* result holds all of the positional fields.
C7_Witness ==
    /\ call.op = "MergeAndWrite"
    /\ call.wrote
    /\ call.overwrite
    /\ PositionalFields \subseteq GpsFieldsOf(call.before)
    /\ PositionalFields \subseteq GpsFieldsOf(ReadFile(fs, call.path))
    /\ ReadFile(fs, call.path) # call.before

\* C8: a merge call writes the sidecar, and reports that it wrote, only when
\* the merged document differs from the content the file had.
C8_WritesOnlyWhenChanged ==
    (call.op \in {"MergeAndWrite", "MergeKeywords"} /\ (call.written \/ call.wrote))
    => ReadFile(fs, call.path) # call.before

(***************************************************************************)
(* Properties of the runs                                                  *)
(***************************************************************************)
\* The paths of the files that became jobs of the run.
JobPaths == {run.jobs[i].path : i \in 1..Len(run.jobs)}

AutoGroupOf(path) ==
    IF \E gi \in 1..Len(run.groups) :
          /\ run.groups[gi].forced = "none"
          /\ \E k \in 1..Len(run.groups[gi].jobs) : run.groups[gi].jobs[k].path = path
    THEN CHOOSE gi \in 1..Len(run.groups) :
          /\ run.groups[gi].forced = "none"
          /\ \E k \in 1..Len(run.groups[gi].jobs) : run.groups[gi].jobs[k].path = path
    ELSE 0

RECURSIVE ConcatJobs(_, _)
ConcatJobs(groups, gi) ==
    IF gi > Len(groups) THEN <<>>
    ELSE (IF groups[gi].forced = "none" THEN groups[gi].jobs ELSE <<>>)
         \o ConcatJobs(groups, gi + 1)

\* C9: the sequential groups are the time-sorted remaining records cut into
\* runs, and two adjacent records are in the same group exactly when both
\* sequence numbers are known, the second is the first plus 1 and the gap is
\* 0..2200 ms, or a sequence number is unknown and the gap is 0..1100 ms.
C9_SequentialGrouping ==
    (run.kind = "series" /\ Len(run.groups) > 0) =>
        /\ ConcatJobs(run.groups, 1) = run.autoJobs
        /\ \A k \in 1..(Len(run.autoJobs) - 1) :
              LET a   == run.autoJobs[k]
                  b   == run.autoJobs[k + 1]
                  gap == b.time - a.time
              IN  (AutoGroupOf(a.path) = AutoGroupOf(b.path))
                  <=> \/ /\ a.seq >= 0 /\ b.seq >= 0
                         /\ b.seq = a.seq + 1
                         /\ gap >= 0 /\ gap <= 2200
                      \/ /\ a.seq < 0 \/ b.seq < 0
                         /\ gap >= 0 /\ gap <= 1100

\* Frames 10 and 11 are 2200 ms apart and share a group; a third frame
\* without a number follows 1101 ms later and starts the next group.
C9_Witness ==
    /\ run.kind = "series"
    /\ Len(run.groups) = 2
    /\ Len(run.autoJobs) = 3
    /\ Len(run.groups[1].jobs) = 2
    /\ run.autoJobs[1].seq = 10 /\ run.autoJobs[2].seq = 11
    /\ run.autoJobs[2].time - run.autoJobs[1].time = 2200
    /\ run.autoJobs[3].seq < 0
    /\ run.autoJobs[3].time - run.autoJobs[2].time = 1101

\* The groups the second loop has dealt with that hold fewer than 3 records.
ShortGroups == {gi \in 1..Len(run.ids) : Len(run.groups[gi].jobs) < 3}

\* The series indexes handed out before group gi.
IndexesBefore(gi) == Cardinality({k \in 1..(gi - 1) : run.ids[k] # 0})

\* C10: a group of fewer than 3 records is not tagged, whatever the mode and
\* the overwrite option: no keyword merge is made for any of its records and
\* their sidecars stay as they were, each record is reported as skipped with
\* "Series too short", and the group takes no series index (the indexes of
\* the tagged groups run on from the start index without a gap).
C10_ShortGroupsNeverTagged ==
    (run.kind = "series" /\ Len(run.groups) > 0) =>
        /\ \A gi \in ShortGroups :
              /\ run.ids[gi] = 0
              /\ \A k \in 1..Len(run.groups[gi].jobs) :
                    LET path == run.groups[gi].jobs[k].path
                    IN  /\ path \notin run.merged
                        /\ [path |-> path, status |-> "skipped",
                            message |-> "Series too short"] \in Range(run.results)
                        /\ (\A p \in run.merged : SidecarPath(p) # SidecarPath(path))
                           => ReadFile(fs, SidecarPath(path))
                              = ReadFile(FolderFiles(run.files), SidecarPath(path))
        /\ \A gi \in 1..Len(run.ids) :
              run.ids[gi] # 0 => run.ids[gi] = run.opts.startIndex + IndexesBefore(gi)
        /\ run.seriesIdx = run.opts.startIndex + IndexesBefore(Len(run.ids) + 1)

\* A run in a forced mode with overwrite set has finished: a single frame
\* ahead of a triplet was skipped, the triplet took the first index and its
\* sidecars were written, and the pair after it was skipped as well.
C10_Witness ==
    /\ run.kind = "series"
    /\ run.pc = "done"
    /\ run.opts.mode = ModeFocus
    /\ run.opts.overwrite
    /\ run.ids = <<0, run.opts.startIndex, 0>>
    /\ Len(run.groups[1].jobs) = 1
    /\ Len(run.groups[3].jobs) = 2
    /\ run.counters["processed"] = 3
    /\ run.counters["skipped"] = 3

\* The sequence numbers of the merged outputs the run collected.
HintSeqs == {run.hints[i].seq : i \in 1..Len(run.hints)}

\* The anchored groups of the run.
ForcedGroups == {gi \in 1..Len(run.groups) : run.groups[gi].forced # "none"}

\* A triplet was accepted for the merged output numbered n.
AcceptedFor(n) ==
    \E gi \in ForcedGroups : run.groups[gi].jobs[1].seq = n - 3

\* Jobs numbered n-3, n-2, n-1 exist that follow each other by their shutter
\* times, the first within 200 ms of a merged output numbered n.
TripletFits(n) ==
    \E i1 \in 1..Len(run.jobs), i2 \in 1..Len(run.jobs), i3 \in 1..Len(run.jobs) :
        LET j1 == run.jobs[i1]
            j2 == run.jobs[i2]
            j3 == run.jobs[i3]
        IN  /\ j1.seq = n - 3 /\ j2.seq = n - 2 /\ j3.seq = n - 1
            /\ \E h \in 1..Len(run.hints) :
                  /\ run.hints[h].seq = n
                  /\ Abs(run.hints[h].time - j1.time) <= 200
            /\ Abs(j2.time - (j1.time + j1.exp)) <= 50 + (j1.exp \div 100)
            /\ Abs(j3.time - (j2.time + j2.exp)) <= 50 + (j2.exp \div 100)

LongGroups == {gi \in 1..Len(run.ids) : Len(run.groups[gi].jobs) >= 3}

\* The exposure values (hundredths of an EV) of the members of a group that
\* recorded a shutter time and an aperture.
ExposureValues(jobs) ==
    { Log2FNumberSq[jobs[k].fnum] - Log2Exposure[jobs[k].exp]
      - (IF jobs[k].iso > 0 THEN Log2Iso[jobs[k].iso] ELSE 0) :
        k \in {x \in 1..Len(jobs) : jobs[x].exp > 0 /\ jobs[x].fnum > 0} }

\* Some member has the HDR flag, or the exposure values spread by 0.7 EV.
LooksBracketed(jobs) ==
    \/ \E k \in 1..Len(jobs) : jobs[k].hdrHint
    \/ \E hi \in ExposureValues(jobs), lo \in ExposureValues(jobs) : hi - lo >= 70

\* C12: in auto mode a group of at least 3 records without a forced
\* classification is tagged exactly when a member has the HDR flag or the
\* exposure values of the members with a shutter time and an aperture spread
\* by at least 0.7 EV; otherwise its records are reported skipped.
C12_AutoClassification ==
    (run.kind = "series" /\ Len(run.groups) > 0 /\ run.opts.mode = ModeAuto) =>
        \A gi \in LongGroups :
            run.groups[gi].forced = "none" =>
                /\ run.ids[gi] # 0 <=> LooksBracketed(run.groups[gi].jobs)
                /\ run.ids[gi] = 0 =>
                      \A k \in 1..Len(run.groups[gi].jobs) :
                          /\ run.groups[gi].jobs[k].path \notin run.merged
                          /\ [path |-> run.groups[gi].jobs[k].path, status |-> "skipped",
                              message |-> "Not detected as HDR"] \in Range(run.results)

\* An auto run has finished and tagged three frames that differ by the
\* sensitivity alone (1 EV), one of them without a recorded ISO.
C12_Witness ==
    /\ run.kind = "series"
    /\ run.pc = "done"
    /\ run.opts.mode = ModeAuto
    /\ Len(run.groups) = 1
    /\ run.groups[1].jobs[2].iso = 200
    /\ run.groups[1].jobs[3].iso = 0
    /\ \A k \in 1..3 : run.groups[1].jobs[k].exp = 500 /\ run.groups[1].jobs[k].fnum = 40
                       /\ ~run.groups[1].jobs[k].hdrHint
    /\ run.ids = <<run.opts.startIndex>>

\* C13: in forced-HDR and in forced-focus mode every group of at least 3
\* records is tagged, whatever its HDR flags and exposure values.
C13_ForcedModesTagEveryGroup ==
    (run.kind = "series" /\ Len(run.groups) > 0 /\ run.opts.mode \in {ModeHDR, ModeFocus}) =>
        \A gi \in LongGroups : run.ids[gi] # 0

\* The index of the group that holds a path.
GroupOfPath(path) ==
    CHOOSE gi \in 1..Len(run.groups) :
        \E k \in 1..Len(run.groups[gi].jobs) : run.groups[gi].jobs[k].path = path

\* The index printed with at least five digits.
FiveDigits(n) ==
    (IF n < 10 THEN <<"0", "0", "0", "0">>
     ELSE IF n < 100 THEN <<"0", "0", "0">>
     ELSE IF n < 1000 THEN <<"0", "0">>
     ELSE IF n < 10000 THEN <<"0">>
     ELSE <<>>) \o IntToStr(n)

\* C14: every file of a tagged group is given the same series ID, the IDs of
\* the tagged groups are PREFIX_<index, five digits> with the indexes
\* StartIndex, StartIndex+1, ... in group order, no two tagged groups share
\* an ID, and a skipped group takes no index.
C14_SeriesIDs ==
    (run.kind = "series" /\ Len(run.groups) > 0) =>
        /\ \A t \in 1..Len(run.tagged) :
              LET gi == GroupOfPath(run.tagged[t].path)
              IN  /\ gi <= Len(run.ids)
                  /\ run.ids[gi] = run.opts.startIndex + IndexesBefore(gi)
                  /\ run.tagged[t].tags[1] = seriesTypeTag
                  /\ run.tagged[t].tags[2]
                     = run.opts.prefix \o <<"_">> \o FiveDigits(run.ids[gi])
        /\ \A t \in 1..Len(run.tagged), u \in 1..Len(run.tagged) :
              (run.tagged[t].tags[2] = run.tagged[u].tags[2])
              <=> (GroupOfPath(run.tagged[t].path) = GroupOfPath(run.tagged[u].path))
        /\ \A gi \in 1..Len(run.ids) :
              run.ids[gi] = 0 =>
                  \A k \in 1..Len(run.groups[gi].jobs) :
                      \A t \in 1..Len(run.tagged) :
                          run.tagged[t].path # run.groups[gi].jobs[k].path

\* A run has finished: the first triplet was not bracketed and the pair after
\* it was too short, so the second triplet got the first ID, ABC_00001.
C14_Witness ==
    /\ run.kind = "series"
    /\ run.pc = "done"
    /\ run.ids = <<0, 0, 1>>
    /\ Len(run.tagged) = 3
    /\ \A t \in 1..3 :
          run.tagged[t].tags = <<seriesTypeTag, <<"A", "B", "C", "_", "0", "0", "0", "0", "1">> >>

(***************************************************************************)
(* Properties of the track lookups                                         *)
(***************************************************************************)
Asked(op) == run.kind = "track" /\ run.pc = "loaded" /\ run.op = op

FirstTime == run.track[1].time
LastTime == run.track[Len(run.track)].time
Outside == run.t < FirstTime \/ run.t > LastTime

\* C15: on a track with samples, CoordinateAt fails with the out-of-bounds
\* error exactly when the time is strictly before the first or strictly
\* after the last sample; within the bounds, ends included, it returns a
\* coordinate and no error.
C15_OutOfBoundsExactly ==
    Asked("CoordinateAt") =>
        /\ Len(run.track) > 0
        /\ (run.res.err = "out_of_bounds") <=> Outside
        /\ ~Outside => (run.res.err = "nil" /\ run.res.coord # NoCoord)
        /\ Outside => run.res.coord = NoCoord

\* A lookup on the last sample of a track with several samples succeeded,
\* and so did the one a millisecond later fail.
C15_Witness ==
    /\ Asked("CoordinateAt")
    /\ Len(run.track) = 3
    /\ FirstTime < LastTime
    /\ run.t = LastTime
    /\ run.res.err = "nil"

OnSample == \E i \in 1..Len(run.track) : run.track[i].time = run.t

\* The samples around a time that lies within the bounds and on no sample.
PrevSample ==
    run.track[CHOOSE i \in 1..Len(run.track) :
                /\ run.track[i].time < run.t
                /\ \A k \in (i + 1)..Len(run.track) : run.track[k].time > run.t]
NextSample ==
    run.track[CHOOSE i \in 1..Len(run.track) :
                /\ run.track[i].time > run.t
                /\ \A k \in 1..(i - 1) : run.track[k].time < run.t]

Between(v, a, b) == (a <= v /\ v <= b) \/ (b <= v /\ v <= a)

\* v is a + (elapsed / total) * (b - a) to within one unit of the model.
LinearAt(v, a, b) ==
    LET total   == NextSample.time - PrevSample.time
        elapsed == run.t - PrevSample.time
        exact   == (a * total) + (elapsed * (b - a))
    IN  /\ (v * total) - exact < total
        /\ exact - (v * total) < total

\* C16: within the bounds, a time equal to a sample's timestamp returns that
\* sample's coordinate unchanged; any other time returns a latitude and a
\* longitude between those of the two samples around it, linear in the
\* elapsed fraction, and an altitude that is between the two when both have
\* one, the only one when one side has one, and absent when neither has.
C16_Interpolation ==
    (Asked("CoordinateAt") /\ ~Outside) =>
        IF OnSample
        THEN \E i \in 1..Len(run.track) :
                /\ run.track[i].time = run.t
                /\ run.res.coord = PointCoord(run.track[i])
        ELSE /\ Between(run.res.coord.lat, PrevSample.lat, NextSample.lat)
             /\ Between(run.res.coord.lon, PrevSample.lon, NextSample.lon)
             /\ LinearAt(run.res.coord.lat, PrevSample.lat, NextSample.lat)
             /\ LinearAt(run.res.coord.lon, PrevSample.lon, NextSample.lon)
             /\ (PrevSample.alt # NoAlt /\ NextSample.alt # NoAlt) =>
                    /\ run.res.coord.alt # NoAlt
                    /\ Between(run.res.coord.alt, PrevSample.alt, NextSample.alt)
                    /\ LinearAt(run.res.coord.alt, PrevSample.alt, NextSample.alt)
             /\ (PrevSample.alt # NoAlt /\ NextSample.alt = NoAlt) =>
                    run.res.coord.alt = PrevSample.alt
             /\ (PrevSample.alt = NoAlt /\ NextSample.alt # NoAlt) =>
                    run.res.coord.alt = NextSample.alt
             /\ (PrevSample.alt = NoAlt /\ NextSample.alt = NoAlt) =>
                    run.res.coord.alt = NoAlt

\* A lookup a quarter of the way between two samples of different places,
\* only the later of which has an altitude.
C16_Witness ==
    /\ Asked("CoordinateAt")
    /\ ~Outside
    /\ ~OnSample
    /\ NextSample.time - PrevSample.time = 20000
    /\ run.t - PrevSample.time = 5000
    /\ PrevSample.lat # NextSample.lat
    /\ PrevSample.alt = NoAlt
    /\ NextSample.alt # NoAlt
    /\ run.res.coord.alt = NextSample.alt
    /\ run.res.coord.lat # PrevSample.lat
    /\ run.res.coord.lat # NextSample.lat

SampleAt(i) ==
    [err |-> "nil", coord |-> PointCoord(run.track[i]), time |-> run.track[i].time]

\* C17: on a track with samples Nearest never fails; it returns the first
\* sample for a time before the track, the last sample for a time after it,
\* and otherwise the sample, of the two around the time, that is closer to
\* it, the earlier one when both are equally far.
C17_Nearest ==
    Asked("Nearest") =>
        /\ Len(run.track) > 0
        /\ run.res.err = "nil"
        /\ run.t < FirstTime => run.res = SampleAt(1)
        /\ run.t > LastTime => run.res = SampleAt(Len(run.track))
        /\ (~Outside /\ OnSample) =>
              /\ run.res.time = run.t
              /\ \E i \in 1..Len(run.track) : run.res = SampleAt(i)
        /\ (~Outside /\ ~OnSample) =>
              IF run.t - PrevSample.time <= NextSample.time - run.t
              THEN /\ run.res.time = PrevSample.time
                   /\ run.res.coord = PointCoord(PrevSample)
              ELSE /\ run.res.time = NextSample.time
                   /\ run.res.coord = PointCoord(NextSample)

\* A time exactly halfway between two samples of different places returned
\* the earlier one.
C17_Witness ==
    /\ Asked("Nearest")
    /\ ~Outside
    /\ ~OnSample
    /\ run.t - PrevSample.time = NextSample.time - run.t
    /\ PointCoord(PrevSample) # PointCoord(NextSample)
    /\ run.res.time = PrevSample.time
    /\ run.res.coord = PointCoord(PrevSample)

(***************************************************************************)
(* Properties of the offset estimate                                       *)
(***************************************************************************)
\* The time of the sample closest to t, the earlier one on a tie.
ClosestTime(t) ==
    LET times == {run.track[i].time : i \in 1..Len(run.track)}
        Dist(x) == IF x >= t THEN x - t ELSE t - x
    IN  CHOOSE x \in times :
            \A y \in times : Dist(x) < Dist(y) \/ (Dist(x) = Dist(y) /\ x <= y)

Difference(i) == ClosestTime(run.photos[i].time) - run.photos[i].time

Surviving ==
    {i \in 1..Len(run.photos) :
        Difference(i) <= maxAutoOffset /\ -Difference(i) <= maxAutoOffset}

\* The k-th smallest surviving difference.
KthDifference(k) ==
    CHOOSE v \in {Difference(i) : i \in Surviving} :
        /\ Cardinality({i \in Surviving : Difference(i) < v}) < k
        /\ k <= Cardinality({i \in Surviving : Difference(i) <= v})

\* C18: detectOffset takes nearest sample time minus capture time for each
\* photo, drops the differences of more than 12 hours either way, fails when
\* none is left, and otherwise returns the number left and their median (the
\* mean of the two middle values for an even number, to the unit of time);
\* so equal differences give that difference whatever their number, and a
\* dropped difference has no effect.
C18_MedianOffset ==
    Asked("detectOffset") =>
        LET n == Cardinality(Surviving)
        IN  /\ (run.res.err # "nil") <=> (n = 0)
            /\ run.res.samples = n
            /\ n = 0 => run.res.offset = 0
            /\ (n > 0 /\ n % 2 = 1) => run.res.offset = KthDifference((n + 1) \div 2)
            /\ (n > 0 /\ n % 2 = 0) =>
                  LET sum == KthDifference(n \div 2) + KthDifference((n \div 2) + 1)
                  IN  /\ (2 * run.res.offset) - sum \in {-1, 0, 1}
                      /\ sum % 2 = 0 => 2 * run.res.offset = sum
            /\ \A i \in Surviving :
                  (\A k \in Surviving : Difference(k) = Difference(i)) =>
                      run.res.offset = Difference(i)

\* Four photos, two of them more than 12 hours off in either direction: the
\* two left, 1 s and 3 s, gave 2 s from 2 samples.
C18_Witness ==
    /\ Asked("detectOffset")
    /\ Len(run.photos) = 4
    /\ Cardinality(Surviving) = 2
    /\ {Difference(i) : i \in Surviving} = {1000, 3000}
    /\ run.res = [err |-> "nil", offset |-> 2000, samples |-> 2]

(***************************************************************************)
(* Properties of the geotagging run                                        *)
(***************************************************************************)
OffsetChosen == run.kind = "geo" /\ run.pc \in {"job", "done"}

JobOf(path) == CHOOSE job \in Range(run.jobs) : job.path = path
Corrected(job) == job.time + run.offset

StampsOf(c, name) == {a.v : a \in {x \in Range(AllAttrs(c)) : x.n = name}}

\* C19: the detected offset is the effective one only when the manual offset
\* is zero and detection is enabled; a manual offset other than zero is used
\* as given; when detection finds no usable sample the run goes on with
\* offset zero; and every track lookup and every written time stamp is for
\* capture time plus the effective offset.
C19_EffectiveOffset ==
    OffsetChosen =>
        LET d == detectOffset(run.track, run.jobs)
        IN  /\ run.opts.timeOffset # 0 => run.offset = run.opts.timeOffset
            /\ (run.opts.timeOffset = 0 /\ ~run.opts.autoOffset) => run.offset = 0
            /\ (run.opts.timeOffset = 0 /\ run.opts.autoOffset /\ d.err = "nil") =>
                  run.offset = d.offset
            /\ (run.opts.timeOffset = 0 /\ run.opts.autoOffset /\ d.err # "nil") =>
                  run.offset = 0
            /\ \A i \in 1..Len(run.results) :
                  run.results[i].status = "out_of_track" =>
                      CoordinateAt(run.track, Corrected(JobOf(run.results[i].path))).err
                          = "out_of_bounds"
            /\ \A p \in run.merged :
                  CoordinateAt(run.track, Corrected(JobOf(p))).err = "nil"
            /\ call.op = "MergeAndWrite" =>
                  \E job \in Range(run.jobs) :
                      /\ call.path = SidecarPath(job.path)
                      /\ call.ts = Corrected(job)
                      /\ call.coord = CoordinateAt(run.track, Corrected(job)).coord
                      /\ call.wrote =>
                            /\ StampsOf(ReadFile(fs, call.path), "GPSTimeStamp")
                                   = {gpsTime(Corrected(job))}
                            /\ StampsOf(ReadFile(fs, call.path), "GPSDateStamp")
                                   = {gpsDate(Corrected(job))}

\* With no manual offset and detection enabled, a camera clock 20 s behind
\* gave a detected offset of 15 s, and a sidecar was written with it.
C19_Witness ==
    /\ OffsetChosen
    /\ run.opts.timeOffset = 0
    /\ run.opts.autoOffset
    /\ run.offset = 15000
    /\ call.op = "MergeAndWrite"
    /\ call.wrote
    /\ call.ts = JobOf(TrimSuffix(call.path, xmpExt) \o arw).time + 15000

(***************************************************************************)
(* Properties of the summary                                               *)
(***************************************************************************)
Completed == run.kind \in {"geo", "series"} /\ run.pc = "done"

Inputs == {f \in Range(run.files) : ~EqualFold(Ext(f.path), xmpExt)}

\* The files whose metadata the run tries to read, and cannot.
ExtractionFails(f) ==
    /\ ~f.metaOk
    /\ \/ SupportedRaw(f.path)
       \/ run.kind = "series" /\ isHDRMergedCandidate(ToLower(Ext(f.path)))

Records(path) == {i \in 1..Len(run.results) : run.results[i].path = path}

\* C20: in a run that completes, every input file other than a sidecar has a
\* record in the summary, and every file whose metadata cannot be read,
\* merged outputs included, has a record of status meta_error and is counted.
C20_EveryFileReported ==
    Completed =>
        /\ \A f \in Inputs : Records(f.path) # {}
        /\ \A f \in Inputs :
              ExtractionFails(f) =>
                  \E i \in Records(f.path) : run.results[i].status = "meta_error"
        /\ run.counters.meta_error = Cardinality({f \in Inputs : ExtractionFails(f)})

\* The same for geotagging runs alone.
GeoEveryFileReported ==
    (Completed /\ run.kind = "geo") =>
        /\ \A f \in Inputs : Records(f.path) # {}
        /\ \A f \in Inputs :
              ExtractionFails(f) =>
                  \E i \in Records(f.path) : run.results[i].status = "meta_error"
        /\ run.counters.meta_error = Cardinality({f \in Inputs : ExtractionFails(f)})

\* The same for the RAW files of series runs.
RawEveryFileReported ==
    (Completed /\ run.kind = "series") =>
        /\ \A f \in Inputs :
              ~isHDRMergedCandidate(ToLower(Ext(f.path))) => Records(f.path) # {}
        /\ \A f \in Inputs :
              (ExtractionFails(f) /\ SupportedRaw(f.path)) =>
                  \E i \in Records(f.path) : run.results[i].status = "meta_error"

Statuses == {"processed", "skipped", "unchanged", "out_of_track", "failed", "meta_error"}

WithStatus(st) == {i \in 1..Len(run.results) : run.results[i].status = st}

\* The records of the files whose sidecar the last merge call worked on.
CallRecords ==
    {i \in 1..Len(run.results) : SidecarPath(run.results[i].path) = call.path}

\* C21: in the summary of a completed run each counter is the number of
\* records of that status, the counters add up to the number of records and
\* no path has two records; a merge that answers "already present" gives the
\* file status unchanged and a write error gives it status failed.
C21_CountersMatchRecords ==
    /\ Completed =>
          /\ \A st \in Statuses : run.counters[st] = Cardinality(WithStatus(st))
          /\ \A i \in 1..Len(run.results) : run.results[i].status \in Statuses
          /\ \A i, k \in 1..Len(run.results) :
                i # k => run.results[i].path # run.results[k].path
    /\ (run.kind \in {"geo", "series"} /\ call.op # "none") =>
          /\ CallRecords # {}
          /\ call.err \in {"gps_present", "keywords_present"} =>
                \A i \in CallRecords : run.results[i].status = "unchanged"
          /\ call.err = "write" =>
                \A i \in CallRecords : run.results[i].status = "failed"

\* A run completed in which one file was written, and the last merge failed
\* on its write.
C21_Witness ==
    /\ Completed
    /\ call.err = "write"
    /\ run.counters["processed"] >= 1
    /\ run.counters["failed"] >= 1
    /\ run.counters["skipped"] >= 1

(***************************************************************************)
(* Properties of cancellation and progress                                 *)
(***************************************************************************)
\* The places where a run looks at its context: before each file of the
\* first loop, before each photo of the geotagging loop, before each group
\* of the series loop.
AtCheck ==
    \/ run.kind \in {"geo", "series"} /\ run.pc = "collect" /\ run.i <= Len(run.files)
    \/ run.kind = "geo" /\ run.pc = "job" /\ run.j <= Len(run.jobs)
    \/ run.kind = "series" /\ run.pc = "group" /\ run.g <= Len(run.groups)

Cancelled == run.kind \in {"geo", "series"} /\ run.pc = "error" /\ run.err = "context canceled"

CancelledStep ==
    /\ run'.kind = run.kind
    /\ run'.pc = "error"
    /\ run'.err = "context canceled"
    /\ run'.jobs = run.jobs
    /\ run'.hints = run.hints
    /\ run'.results = run.results
    /\ run'.merged = run.merged
    /\ fs' = fs
    /\ call' = call

\* C22: a check that sees the context cancelled ends the run with the
\* context's error, with no metadata read and no sidecar write after it;
\* a run ends that way only at such a check; the files are as they were at
\* the check, so a sidecar is either wholly written or untouched; and
\* nothing happens after the run has ended.
C22_CancelBetweenFiles ==
    [][ /\ (run.kind \in {"geo", "series"} /\ run.cancelled /\ AtCheck) => CancelledStep
        /\ (run.kind \in {"geo", "series"} /\ run.pc # "error" /\ run'.pc = "error"
              /\ run'.err = "context canceled") =>
               (run.cancelled /\ AtCheck /\ CancelledStep)
        /\ Cancelled => UNCHANGED vars ]_vars

\* A run stopped by its context after it had written the sidecar of one
\* photo and before it came to the next.
C22_Witness ==
    /\ Cancelled
    /\ run.merged # {}
    /\ run.counters["processed"] >= 1
    /\ \E p \in run.merged : ReadFile(fs, SidecarPath(p)).k = "doc"
    /\ \E job \in Range(run.jobs) : job.path \notin run.merged /\ Records(job.path) = {}

Started == run.kind \in {"geo", "series"} /\ (run.pc \notin {"start", "error"} \/ Cancelled)

\* The files a run counts: all but sidecars, and in a series run all but
\* merged outputs too; a geotagging run counts each of them twice.
Counted ==
    {f \in Inputs : run.kind = "series" => ~isHDRMergedCandidate(ToLower(Ext(f.path)))}
ExpectedTotal == IF run.kind = "geo" THEN 2 * Cardinality(Counted) ELSE Cardinality(Counted)

\* C23: within a run the total given to the progress callback is always the
\* same, the done value never goes down and never exceeds the total, and in
\* a run that completes the last done value is the total.
C23_ProgressMonotonic ==
    Started =>
        /\ run.total = ExpectedTotal
        /\ \A i \in 1..Len(run.progress) : 0 <= run.progress[i] /\ run.progress[i] <= run.total
        /\ \A i \in 1..(Len(run.progress) - 1) : run.progress[i] <= run.progress[i + 1]
        /\ (run.opts.progress /\ run.total # 0) => run.progress # <<>>
        /\ (Completed /\ run.progress # <<>>) => run.progress[Len(run.progress)] = run.total
        /\ (Completed /\ run.kind = "series" /\ run.progress # <<>>) =>
              run.progress = [i \in 1..(run.total + 1) |-> i - 1]

\* A series run over RAW frames and a merged output completed and its last
\* progress report was the number of RAW frames.
C23_Witness ==
    /\ Completed
    /\ run.kind = "series"
    /\ Cardinality(Counted) < Cardinality(Inputs)
    /\ run.total >= 3
    /\ Len(run.progress) = run.total + 1
    /\ run.progress[Len(run.progress)] = run.total

(***************************************************************************)
(* Properties of the sidecar path                                          *)
(***************************************************************************)
\* The position of the dot that starts the final extension of a path: the
\* last dot after the last slash, 0 when there is none.
LastDot(path) ==
    LET dots == {i \in 1..Len(path) :
                    /\ path[i] = "."
                    /\ \A k \in i..Len(path) : path[k] # "/"}
    IN  IF dots = {} THEN 0 ELSE CHOOSE i \in dots : \A k \in dots : k <= i

FinalExt(path) == IF LastDot(path) = 0 THEN <<>> ELSE SubSeq(path, LastDot(path), Len(path))
WithoutExt(path) == IF LastDot(path) = 0 THEN path ELSE SubSeq(path, 1, LastDot(path) - 1)

\* The part of a path up to and including its last slash.
DirPart(path) ==
    LET slashes == {i \in 1..Len(path) : path[i] = "/"}
    IN  IF slashes = {} THEN <<>>
        ELSE SubSeq(path, 1, CHOOSE i \in slashes : \A k \in slashes : k <= i)

IsXmpExt(ext) ==
    /\ Len(ext) = 4
    /\ ext[1] = "."
    /\ ext[2] \in {"x", "X"}
    /\ ext[3] \in {"m", "M"}
    /\ ext[4] \in {"p", "P"}

PathDone == run.kind = "path" /\ run.pc = "done"

\* C24: SidecarPath gives the photo path with its final extension replaced
\* by ".xmp", or with ".xmp" appended when it has none, directory and base
\* name kept; a final extension ".xmp" in any letter case is taken off
\* first, and the final extension of what is left is the one replaced.
C24_SidecarPath ==
    PathDone =>
        LET rest == IF IsXmpExt(FinalExt(run.input)) THEN WithoutExt(run.input)
                    ELSE run.input
        IN  /\ run.res = WithoutExt(rest) \o xmpExt
            /\ DirPart(run.res) = DirPart(run.input)
            /\ FinalExt(run.res) = xmpExt

\* The path of a sidecar named after the photo with its extension kept,
\* IMG_1.cr3.XMP in a folder with a dot in its name, gave IMG_1.xmp there.
C24_Witness ==
    /\ PathDone
    /\ run.input = <<"d", ".", "e", "/", "I", "M", "G", "_", "1", ".", "c", "r", "3",
                     ".", "X", "M", "P">>
    /\ run.res = <<"d", ".", "e", "/", "I", "M", "G", "_", "1">> \o xmpExt

(***************************************************************************)
(* Properties of the two grouping phases together                          *)
(***************************************************************************)
Planned == run.kind = "series" /\ Len(run.groups) > 0

\* The places (group, position) at which a path occurs in the groups.
PlacesOf(path) ==
    {<<gi, k>> \in (1..Len(run.groups)) \X (1..Len(run.jobs)) :
        /\ k <= Len(run.groups[gi].jobs)
        /\ run.groups[gi].jobs[k].path = path}

ForcedPaths ==
    {run.groups[gi].jobs[k].path : gi \in ForcedGroups, k \in 1..3}

\* C25: the anchored triplets followed by the sequential groups partition the
\* eligible records: each record is in exactly one group, no group is empty,
\* each triplet has 3 records, no record of a triplet is in a sequential
\* group, and the sequential groups one after the other are the other
\* records in sorted order.
C25_GroupsPartition ==
    Planned =>
        /\ \A i \in 1..Len(run.jobs) : Cardinality(PlacesOf(run.jobs[i].path)) = 1
        /\ \A gi \in 1..Len(run.groups) :
              /\ Len(run.groups[gi].jobs) >= 1
              /\ \A k \in 1..Len(run.groups[gi].jobs) : run.groups[gi].jobs[k] \in Range(run.jobs)
        /\ \A gi \in ForcedGroups : Len(run.groups[gi].jobs) = 3
        /\ \A gi \in (1..Len(run.groups)) \ ForcedGroups :
              \A k \in 1..Len(run.groups[gi].jobs) :
                  run.groups[gi].jobs[k].path \notin ForcedPaths
        /\ ConcatJobs(run.groups, 1)
              = SelectAt(run.jobs, {i \in 1..Len(run.jobs) : run.jobs[i].path \notin ForcedPaths}, 1)
        /\ \A i \in 1..(Len(run.jobs) - 1) : JobLess(run.jobs[i], run.jobs[i + 1])

\* A folder of four frames gave one anchored triplet and one sequential
\* group holding the frame left over.
C25_Witness ==
    /\ Planned
    /\ Len(run.jobs) = 4
    /\ Cardinality(ForcedGroups) = 1
    /\ Len(run.groups) = 2
    /\ Len(run.groups[2].jobs) = 1
    /\ run.groups[2].jobs[1].path \notin ForcedPaths

\* C26: every record of an anchored triplet has a known sequence number: a
\* record whose file name ends in no number is never a frame of a triplet.
C26_TripletFramesNumbered ==
    Planned =>
        \A gi \in ForcedGroups :
            \A k \in 1..Len(run.groups[gi].jobs) : run.groups[gi].jobs[k].seq >= 0

(***************************************************************************)
(* Properties of a GPS overwrite and of failed calls                       *)
(***************************************************************************)
\* The GPS attributes and GPS elements of a document, as <<name, value>>,
\* by position.
GpsAttrAt(c) == {i \in 1..Len(AllAttrs(c)) : AllAttrs(c)[i].n \in GpsNameSet}
GpsNodeAt(c) == {i \in 1..Len(AllNodes(c)) : ~NotGpsNode(AllNodes(c)[i])}
GpsCount(c, name) ==
    Cardinality({i \in GpsAttrAt(c) : AllAttrs(c)[i].n = name})
    + Cardinality({i \in GpsNodeAt(c) : AllNodes(c)[i].n = name})
GpsPairs(c) ==
    {<<AllAttrs(c)[i].n, AllAttrs(c)[i].v>> : i \in GpsAttrAt(c)}
    \cup {<<AllNodes(c)[i].n, AllNodes(c)[i].v>> : i \in GpsNodeAt(c)}

\* The GPS fields a coordinate and a time are written as.
NewGpsPairs(coord, ts) ==
    {<<a.n, a.v>> : a \in Range(UpdateAttrs(coord, ts, TRUE))}

Overwrote ==
    /\ call.op = "MergeAndWrite"
    /\ call.overwrite
    /\ call.wrote
    /\ call.before.k = "doc"
    /\ GpsFieldsOf(call.before) # {}

\* C27: after MergeAndWrite with overwrite on a sidecar that holds GPS data,
\* each GPS field occurs at most once and holds the new value, the altitude
\* fields are absent when the new coordinate has no altitude, and no GPS
\* value of before the call is left, also when the old data was stored as
\* child elements or in a second rdf:Description.
C27_OverwriteLeavesNoOldGps ==
    Overwrote =>
        /\ \A name \in GpsNameSet : GpsCount(ReadFile(fs, call.path), name) <= 1
        /\ GpsPairs(ReadFile(fs, call.path)) = NewGpsPairs(call.coord, call.ts)

\* The same for sidecars whose old GPS data is in the first rdf:Description
\* or in child elements.
OverwriteOfFirstDescription ==
    (Overwrote /\ \A d \in 2..Len(call.before.descs) :
                    \A i \in 1..Len(call.before.descs[d].attrs) :
                        call.before.descs[d].attrs[i].n \notin GpsNameSet) =>
        /\ \A name \in GpsNameSet : GpsCount(ReadFile(fs, call.path), name) <= 1
        /\ GpsPairs(ReadFile(fs, call.path)) = NewGpsPairs(call.coord, call.ts)

\* The errors of the merge calls that arise before the file is written.
EarlyErrors ==
    {"read", "no_description", "parse", "no_tags", "gps_present", "keywords_present"}

\* C28: when MergeAndWrite or MergeKeywords returns an error that arises
\* before its file write (sidecar unreadable, no rdf:Description tag, XMP
\* not parsable, no tag left after trimming, already present), the sidecar
\* is as it was before the call, and a sidecar that was absent is not there.
C28_EarlyErrorsLeaveFile ==
    (call.op # "none" /\ call.err \in EarlyErrors) =>
        /\ ~call.wrote
        /\ ~call.written
        /\ ReadFile(fs, call.path) = call.before

\* A keyword merge on a sidecar that is not XML failed on parsing, and the
\* sidecar is what it was.
C28_Witness ==
    /\ call.op = "MergeKeywords"
    /\ call.err = "parse"
    /\ call.before = Junk
    /\ ReadFile(fs, call.path) = Junk

(***************************************************************************)
(* Properties of the GUI backend                                           *)
(***************************************************************************)
\* The goroutines inside a Process call that is past the running test and
\* has not yet run its deferred function.
Working(r) ==
    {t \in Goroutines : /\ r.th[t].op = "Process"
                        /\ r.th[t].pc \in {"parse", "attach", "run", "writing", "defer"}}

OneWorkflow(r) ==
    /\ Cardinality(Working(r)) <= 1
    /\ r.running <=> Working(r) # {}
    /\ r.cancel # 0 <=> r.running
    /\ \A t \in Working(r) : r.cancel = r.th[t].ctx
    /\ \A t \in Goroutines :
          (r.th[t].op = "Cancel" /\ r.th[t].pc = "ret") =>
              (r.th[t].ret = "nothing to cancel" <=> r.th[t].ctx = 0)

\* C29: under any interleaving of Process and Cancel calls at most one
\* Process workflow is active; a Process call that finds one active returns
\* "already running" and leaves the backend and the active run as they are;
\* and when no workflow is active the backend is idle (running false, cancel
\* nil), so that a Process call starts and a Cancel call finds nothing to
\* cancel.
C29_OneProcessAtATime ==
    [][ run'.kind = "gui" =>
          /\ OneWorkflow(run')
          /\ \A t \in Goroutines :
                (run.th[t].pc = "enter" /\ run'.th[t].ret = "already running") =>
                    /\ Working(run) # {}
                    /\ run'.running = run.running
                    /\ run'.cancel = run.cancel
                    /\ run'.done = run.done
                    /\ run'.logBuf = run.logBuf
                    /\ \A u \in Goroutines \ {t} : run'.th[u] = run.th[u]
          /\ \A t \in Goroutines :
                (run.th[t].op = "Process" /\ run.th[t].pc = "enter" /\ Working(run) = {}
                   /\ run'.th[t] # run.th[t]) =>
                    (run'.running /\ Working(run') = {t})
          /\ \A t \in Goroutines :
                (run.th[t].op = "Cancel" /\ run.th[t].pc = "enter" /\ Working(run) = {}
                   /\ run'.th[t] # run.th[t]) =>
                    run'.th[t].ctx = 0 ]_vars

\* After a first workflow has ended a second one is active, a second
\* Process call was answered "already running" and a Cancel call that came
\* between the two found nothing to cancel.
C29_Witness ==
    /\ run.kind = "gui"
    /\ run.starts = 2
    /\ \E t \in Goroutines : run.th[t].op = "Process" /\ run.th[t].pc = "run" /\ run.th[t].ctx = 2
    /\ \E t \in Goroutines : run.th[t].ret = "already running"
    /\ \E t \in Goroutines : run.th[t].ret = "nothing to cancel"

\* The goroutines inside the bytes.Buffer numbered b.
InBuffer(b) ==
    {t \in Goroutines : /\ run.th[t].pc \in {"writing", "inbuf"}
                        /\ run.th[t].ctx = b}

\* C30: the log buffer is never accessed by two goroutines at once: a
\* GetLogs, SaveLog or ClearLogs call during a run excludes the run's log
\* writes into the same buffer.
C30_LogBufferExclusive ==
    run.kind = "gui" => \A b \in 1..MaxStarts : Cardinality(InBuffer(b)) <= 1

Init == InitXmp \/ InitRuns \/ InitTrack \/ InitPath \/ InitGui
Next == NextXmp \/ NextRuns \/ NextTrack \/ NextPath \/ NextGui
Spec == Init /\ [][Next]_vars
====
